---------------------------- MODULE Spec2Model ----------------------------
(***************************************************************************)
(* A model of gitdb's transaction layer: the repository engine (commits,   *)
(* trees, refs), Transaction<TxActive> and TransactionManager.             *)
(*                                                                         *)
(* A commit is modelled by its whole first-parent chain, a sequence of     *)
(* [tree, msg] entries: the id of a git commit is the hash of its tree,    *)
(* its message and its parent's id, so two commits are the same object     *)
(* exactly when their chains are equal.  Every engine mutation gives its   *)
(* commit a single parent, so a chain is all there is to a commit.         *)
(***************************************************************************)
EXTENDS Naturals, Sequences, FiniteSets

\* ------------------------------------------------------------------ bounds
MaxTx == 2          \* transactions begun in one run
NumKeys == 2        \* row keys 1..NumKeys
MaxVal == 1         \* row contents 1..MaxVal (column data and timestamps)
MaxWrites == 1      \* write operations of one transaction
MaxCleanups == 1    \* calls of cleanup_abandoned
MaxChain == 3       \* commits in a chain the engine's direct client builds
MaxStmts == 5       \* SQL statements a session executes
MaxSessions == 2    \* sessions that call Catalog::update_table
MaxUpdates == 2     \* calls of update_table by one session
MaxVersion == 3     \* the largest schema version supplied
MaxNameLen == 3     \* characters of a name given to a constructor
MaxScanKeys == 3    \* rows of a scanned table
MaxRows == 3        \* rows a Scan operator holds
MaxStages == 2      \* operators of a pipeline above its Scan
MaxLimit == 2       \* the largest LIMIT, and one more than the largest OFFSET
MaxCalls == 5       \* calls of next_row on a pipeline since it was built or reset
MaxResets == 1      \* calls of reset on a pipeline
MaxPlanDepth == 3   \* operators of a logical plan above its Scan
MaxSesStmts == 2    \* statements one of several concurrent SQL sessions executes
MaxThreads == 3     \* threads that call one TransactionManager
MaxThreadCalls == 1 \* calls one thread makes on the manager

TxIds == 1..MaxTx
Keys == 1..NumKeys
Vals == 1..MaxVal
Tables == {"t"}
NoTx == 0           \* no transaction: the tx_id None of a commit message, a free lock

\* ------------------------------------------------------------------- rows
NoRow == [version |-> 0, val |-> 0]

\* A blob::Row in full: no row.
NoRowValue == [key |-> 0, version |-> 0, created_at |-> 0, updated_at |-> 0, data |-> << >>]

\* Row::new: version 1.
RowNew(v) == [version |-> 1, val |-> v]

\* Row::with_update: the version of the row it is applied to, plus one.
WithUpdate(row, v) == [version |-> row.version + 1, val |-> v]

\* ------------------------------------------------------------------ trees
\* A root tree maps each table it holds to its table tree; a table tree maps
\* every key to the row blob stored under <key>.json, NoRow when there is none.
EmptyTable == [k \in Keys |-> NoRow]

\* create_initial_tree: only the reserved (always empty) _schema directory.
InitialTree == [tb \in {} |-> EmptyTable]

TableExists(tree, tb) == tb \in DOMAIN tree

RowExists(tree, tb, k) == tb \in DOMAIN tree /\ tree[tb][k] # NoRow

\* The blob a diff sees at path tb/k.json: NoRow when the table or row is absent.
BlobAt(tree, tb, k) == IF tb \in DOMAIN tree THEN tree[tb][k] ELSE NoRow

MutCreateTable(tree, tb) == [x \in DOMAIN tree \cup {tb} |-> IF x = tb THEN EmptyTable ELSE tree[x]]

MutDropTable(tree, tb) == [x \in DOMAIN tree \ {tb} |-> tree[x]]

MutUpsertRow(tree, tb, k, row) == [tree EXCEPT ![tb] = [@ EXCEPT ![k] = row]]

MutDeleteRow(tree, tb, k) == [tree EXCEPT ![tb] = [@ EXCEPT ![k] = NoRow]]

\* ---------------------------------------------------------------- commits
Message(op, tb, k, tx) == [op |-> op, table |-> tb, key |-> k, tx |-> tx]

\* create_initial_commit: the initial tree, no parent.
InitialCommit == << [tree |-> InitialTree, msg |-> Message("INIT", "", 0, NoTx)] >>

\* A faulty variant: the commit is made without a parent.
NewCommit_Orphan(at, tree, msg) == << [tree |-> tree, msg |-> msg] >>

\* CommitBuilder::commit with the single parent `at`.
NewCommit(at, tree, msg) == Append(at, [tree |-> tree, msg |-> msg])

TreeAt(c) == c[Len(c)].tree

IsAncestor(a, c) == Len(a) <= Len(c) /\ SubSeq(c, 1, Len(a)) = a

\* find_merge_base: the nearest common ancestor, the longest common prefix.
FindMergeBase(a, b) ==
    LET n == CHOOSE i \in 1..Len(a) :
                 /\ i <= Len(b)
                 /\ SubSeq(a, 1, i) = SubSeq(b, 1, i)
                 /\ \A j \in (i+1)..Len(a) : j > Len(b) \/ SubSeq(a, 1, j) # SubSeq(b, 1, j)
    IN SubSeq(a, 1, n)

\* diff_commits: the paths (table, key) whose blob differs between the trees.
DiffCommits(old, new) ==
    { p \in Tables \X Keys : BlobAt(TreeAt(old), p[1], p[2]) # BlobAt(TreeAt(new), p[1], p[2]) }

\* detect_conflicts: paths changed on both sides since the merge base.
DetectConflicts(ours, theirs) ==
    LET mb == FindMergeBase(ours, theirs)
        our_paths == DiffCommits(mb, ours)
    IN { p \in DiffCommits(mb, theirs) : p \in our_paths }

\* --------------------------------------------- repository engine mutations
\* Each returns [err, commit]: err = "" and the new commit, or the error and `at`.
Ok(c) == [err |-> "", commit |-> c]
Err(e, at) == [err |-> e, commit |-> at]

RepoCreateTable(tb, at, tx) ==
    IF TableExists(TreeAt(at), tb) THEN Err("TableAlreadyExists", at)
    ELSE Ok(NewCommit(at, MutCreateTable(TreeAt(at), tb), Message("CREATE TABLE", tb, 0, tx)))

RepoDropTable(tb, at, tx) ==
    IF ~TableExists(TreeAt(at), tb) THEN Err("TableNotFound", at)
    ELSE Ok(NewCommit(at, MutDropTable(TreeAt(at), tb), Message("DROP TABLE", tb, 0, tx)))

\* A faulty variant: insert_row without the row_exists test.
RepoInsertRow_NoCheck(tb, k, row, at, tx) ==
    IF ~TableExists(TreeAt(at), tb) THEN Err("TableNotFound", at)
    ELSE Ok(NewCommit(at, MutUpsertRow(TreeAt(at), tb, k, row), Message("INSERT", tb, k, tx)))

RepoInsertRow(tb, k, row, at, tx) ==
    IF ~TableExists(TreeAt(at), tb) THEN Err("TableNotFound", at)
    ELSE IF RowExists(TreeAt(at), tb, k) THEN Err("RowAlreadyExists", at)
    ELSE Ok(NewCommit(at, MutUpsertRow(TreeAt(at), tb, k, row), Message("INSERT", tb, k, tx)))

RepoUpdateRow(tb, k, row, at, tx) ==
    IF ~TableExists(TreeAt(at), tb) THEN Err("TableNotFound", at)
    ELSE IF ~RowExists(TreeAt(at), tb, k) THEN Err("RowNotFound", at)
    ELSE Ok(NewCommit(at, MutUpsertRow(TreeAt(at), tb, k, row), Message("UPDATE", tb, k, tx)))

RepoUpsertRow(tb, k, row, at, tx) ==
    IF ~TableExists(TreeAt(at), tb) THEN Err("TableNotFound", at)
    ELSE Ok(NewCommit(at, MutUpsertRow(TreeAt(at), tb, k, row),
                      Message(IF RowExists(TreeAt(at), tb, k) THEN "UPDATE" ELSE "INSERT", tb, k, tx)))

RepoDeleteRow(tb, k, at, tx) ==
    IF ~TableExists(TreeAt(at), tb) THEN Err("TableNotFound", at)
    ELSE IF ~RowExists(TreeAt(at), tb, k) THEN Err("RowNotFound", at)
    ELSE Ok(NewCommit(at, MutDeleteRow(TreeAt(at), tb, k), Message("DELETE", tb, k, tx)))

\* read_row: [status, row]; an absent row is Ok(None), an absent table an error.
RepoReadRow(tb, k, at) ==
    IF ~TableExists(TreeAt(at), tb) THEN [status |-> "TableNotFound", row |-> NoRow]
    ELSE [status |-> "Ok", row |-> TreeAt(at)[tb][k]]

\* ------------------------------------------------------------------- refs
\* A faulty variant: the branch is moved whatever it points at (update_branch).
UpdateBranchIfUnchanged_Force(current, expected, new_target) ==
    [err |-> "", target |-> new_target]

\* RefManager::update_branch_if_unchanged on a branch that points at `current`:
\* [err, target], target being what the branch points at afterwards.
UpdateBranchIfUnchanged(current, expected, new_target) ==
    IF current # expected
    THEN [err |-> "ConcurrentModification", target |-> current]
    ELSE [err |-> "", target |-> new_target]

\* ------------------------------------------------------------------ state
VARIABLES
    main,        \* refs/heads/main: the commit it points at
    branch,      \* the tx-branches: tx id -> commit, for the branches that exist
    active,      \* TransactionManagerInner.active: the ids registered
    commitLock,  \* TransactionManagerInner.commit_lock: its holder, or NoTx
    pc,          \* where each transaction's thread stands
    base,        \* TransactionMetadata.base_commit
    current,     \* TransactionMetadata.current_commit
    via,         \* TRUE when the transaction is ended through the manager
    mainHead,    \* commit(): the local main_head
    retryHead,   \* commit(), ConcurrentModification arm: its own main_head
    conflicts,   \* commit(): the local conflicts, the paths of a Conflict error
    ff,          \* commit(): what fast_forward_main returned
    result,      \* what commit() / rollback() returned
    writeErr,    \* the error the transaction's latest write returned, "" for Ok or none
    lastRead,    \* what the transaction's latest read() returned, and of which row
    cpc,         \* cleanup_abandoned: where the call stands
    cActive,     \* cleanup_abandoned: the local active_ids
    cTodo,       \* cleanup_abandoned: listed branches still to be deleted
    cleaned,     \* cleanup_abandoned: the local count, its return value
    cleanups,    \* calls of cleanup_abandoned begun so far
    eCommit,     \* a direct client of the engine: the commit id its latest mutation returned
    eCall,       \* a direct client of the engine: its latest call and what it returned
    currentTx,   \* QueryExecutor.current_tx: the id of its transaction, or NoTx
    stmt,        \* the last SQL statement executed: its kind and its error, "" for Ok
    nStmt,       \* SQL statements executed so far
    inTx,        \* the rows INSERTed since the last BEGIN while current_tx was set
    selected,    \* the table and row keys the last SELECT returned
    cDropped,    \* the transactions already dropped when cleanup_abandoned was called
    upd,         \* Catalog::update_table in each session: where it stands and its locals
    fnIn,        \* the argument given to a constructor, to the serialiser or to a scan
    fnOut,       \* what it returned
    plan,        \* an operator pipeline: the rows its Scan holds and the operators above it
    ops,         \* the fields of each operator of the pipeline that next_row and reset change
    run,         \* the calls made on the pipeline's top operator and what they returned
    opt,         \* Optimizer::optimize: its local current, the passes made, whether it returned
    ses,         \* a statement in each SQL session: where it stands and its locals
    written,     \* the rows a completed INSERT wrote that no completed DELETE has removed
    th,          \* each thread that calls the manager: the steps its call has yet to make
    lk           \* the holders of the commit mutex, the active-map lock and the repository lock

txVars == << pc, base, current, via, mainHead, retryHead, conflicts, ff, result, writeErr, lastRead >>
cleanupVars == << cpc, cActive, cTodo, cleaned, cleanups, cDropped >>
engVars == << eCommit, eCall >>
sqlVars == << currentTx, stmt, nStmt, inTx, selected >>
catVars == << upd >>
fnVars == << fnIn, fnOut >>
opVars == << plan, ops, run >>
optVars == << opt >>
sesVars == << ses, written >>
lockVars == << th, lk >>
vars == << main, branch, active, commitLock, txVars, cleanupVars, engVars, sqlVars, catVars, fnVars, opVars, optVars, sesVars, lockVars >>

\* The sessions that call Catalog::update_table, each with its own Catalog.
Sessions == 1..MaxSessions
Threads == 1..MaxThreads

\* A session that is not inside update_table.
NoUpdate == [pc |-> "idle", head |-> InitialCommit, version |-> 0, err |-> "", calls |-> 0]

\* No argument given, nothing returned.
NoInput == [kind |-> "none", name |-> << >>, row |-> NoRowValue, keys |-> {}]
NoOutput == [done |-> {}, table |-> "", key |-> "", row |-> NoRowValue, err |-> "", scan |-> << >>]

\* No pipeline built, no call made on one.
NoPlan == [rows |-> << >>, stages |-> << >>]
NoRun == [out |-> << >>, late |-> << >>, ended |-> FALSE, err |-> "", calls |-> 0, resets |-> 0,
          pulled |-> 0]

\* optimize has not been called.
NoOpt == [current |-> [nodes |-> << >>, leaf |-> [kind |-> "Scan", columns |-> ""]],
          iter |-> 0, done |-> FALSE]

\* No SQL statement executed, no SELECT answered yet.
NoStmt == [op |-> "none", table |-> "", err |-> ""]
NoSelect == [table |-> "", keys |-> {}]

\* The engine's direct client has made no call yet.
NoCall == [op |-> "none", ref |-> NoTx, err |-> ""]

\* No read() made yet, or none since the transaction wrote the row it had read.
Unread == [table |-> "", key |-> 0, status |-> "Unread", row |-> NoRow]

\* The head of a repository whose table "t" was created by an earlier, finished
\* with_transaction(|tx| tx.create_table(t)) of transaction NoTx + 0.
SetupCommit ==
    NewCommit(InitialCommit, MutCreateTable(InitialTree, "t"), Message("CREATE TABLE", "t", 0, NoTx))

\* The head after a further finished insert of row 1 into table "t".
SetupRowCommit ==
    NewCommit(SetupCommit, MutUpsertRow(TreeAt(SetupCommit), "t", 1, RowNew(1)), Message("INSERT", "t", 1, NoTx))

\* No statement is running in a session.
NoSession == [pc |-> "idle", op |-> "none", key |-> 0, head |-> InitialCommit, err |-> "", calls |-> 0]

\* A thread between two calls, and the three locks free.
NoThread == [busy |-> FALSE, todo |-> << >>, calls |-> 0]
NoLocks == [commit |-> 0, activeW |-> 0, activeR |-> {}, repoW |-> 0, repoR |-> {}]

\* Everything but main and the function arguments: nothing has run yet.
InitRest ==
    /\ branch = [t \in {} |-> InitialCommit]
    /\ active = {}
    /\ commitLock = NoTx
    /\ pc = [t \in TxIds |-> "idle"]
    /\ base = [t \in TxIds |-> InitialCommit]
    /\ current = [t \in TxIds |-> InitialCommit]
    /\ via = [t \in TxIds |-> FALSE]
    /\ mainHead = [t \in TxIds |-> InitialCommit]
    /\ retryHead = [t \in TxIds |-> InitialCommit]
    /\ conflicts = [t \in TxIds |-> {}]
    /\ ff = [t \in TxIds |-> "none"]
    /\ result = [t \in TxIds |-> "none"]
    /\ writeErr = [t \in TxIds |-> ""]
    /\ lastRead = [t \in TxIds |-> Unread]
    /\ cpc = "idle"
    /\ cActive = {}
    /\ cTodo = {}
    /\ cleaned = 0
    /\ cleanups = 0
    /\ eCommit = main
    /\ eCall = NoCall
    /\ currentTx = NoTx
    /\ stmt = NoStmt
    /\ nStmt = 0
    /\ inTx = {}
    /\ selected = NoSelect
    /\ cDropped = {}
    /\ upd = [s \in Sessions |-> NoUpdate]
    /\ ses = [s \in Sessions |-> NoSession]
    /\ written = {}
    /\ th = [t \in Threads |-> NoThread]
    /\ lk = NoLocks

\* No pipeline has been built.
InitNoPlan ==
    /\ plan = NoPlan
    /\ ops = << >>
    /\ run = NoRun
    /\ opt = NoOpt

Init ==
    /\ main \in {InitialCommit, SetupCommit, SetupRowCommit}
    /\ InitRest
    /\ fnIn = NoInput
    /\ fnOut = NoOutput
    /\ InitNoPlan

\* A faulty variant: the branch is left in place.
DeleteTransactionBranch_Keep(br, t) == br

\* RefManager::delete_transaction_branch; an absent branch is an error the callers drop.
DeleteTransactionBranch(br, t) == [x \in DOMAIN br \ {t} |-> br[x]]

\* A faulty variant: the head is taken to be the repository's first commit.
RepoHead_Initial == InitialCommit

\* GitRepository::head: the commit main points at.
RepoHead == main

\* ------------------------------------------------------------------ begin
\* begin_with_isolation, first call: repo.head() gives the base commit.  Ids are
\* ULIDs, generated in time order: transaction t starts after every smaller id.
BeginHead(t) ==
    /\ pc[t] = "idle"
    /\ \A u \in TxIds : u < t => pc[u] # "idle"
    /\ base' = [base EXCEPT ![t] = RepoHead]
    /\ current' = [current EXCEPT ![t] = RepoHead]
    /\ pc' = [pc EXCEPT ![t] = "b_branch"]
    /\ UNCHANGED << main, branch, active, commitLock, via, mainHead, retryHead, conflicts, ff, result, writeErr, lastRead, cleanupVars, engVars, sqlVars, catVars, fnVars, opVars, optVars, sesVars, lockVars >>

\* A faulty variant: the tx-branch is created at the repository's first commit.
BeginBranch_AtInitial(t) ==
    /\ pc[t] = "b_branch"
    /\ branch' = [x \in DOMAIN branch \cup {t} |-> IF x = t THEN InitialCommit ELSE branch[x]]
    /\ pc' = [pc EXCEPT ![t] = "b_register"]
    /\ UNCHANGED << main, active, commitLock, base, current, via, mainHead, retryHead, conflicts, ff, result, writeErr, lastRead, cleanupVars, engVars, sqlVars, catVars, fnVars, opVars, optVars, sesVars, lockVars >>

\* begin_with_isolation, second call: create_transaction_branch(tx_id, base_commit).
BeginBranch(t) ==
    /\ pc[t] = "b_branch"
    /\ branch' = [x \in DOMAIN branch \cup {t} |-> IF x = t THEN base[t] ELSE branch[x]]
    /\ pc' = [pc EXCEPT ![t] = "b_register"]
    /\ UNCHANGED << main, active, commitLock, base, current, via, mainHead, retryHead, conflicts, ff, result, writeErr, lastRead, cleanupVars, engVars, sqlVars, catVars, fnVars, opVars, optVars, sesVars, lockVars >>

\* begin_with_isolation, third step: active.write().insert(tx_id, ..); Ok(tx).
BeginRegister(t) ==
    /\ pc[t] = "b_register"
    /\ active' = active \cup {t}
    /\ pc' = [pc EXCEPT ![t] = "active"]
    /\ UNCHANGED << main, branch, commitLock, base, current, via, mainHead, retryHead, conflicts, ff, result, writeErr, lastRead, cleanupVars, engVars, sqlVars, catVars, fnVars, opVars, optVars, sesVars, lockVars >>

\* ----------------------------------------------------------------- writes
\* A faulty variant: the write moves main (as an auto-commit write does)
\* instead of the transaction's own branch.
ApplyWrite_OnMain(t, tb, ks, res) ==
    /\ pc[t] = "active"
    /\ Len(current[t]) - Len(base[t]) < MaxWrites
    /\ IF res.err # ""
       THEN /\ writeErr' = [writeErr EXCEPT ![t] = res.err]
            /\ UNCHANGED << main, current, lastRead >>
       ELSE /\ current' = [current EXCEPT ![t] = res.commit]
            /\ main' = res.commit
            /\ writeErr' = [writeErr EXCEPT ![t] = ""]
            /\ lastRead' = IF lastRead[t].table = tb /\ lastRead[t].key \in ks
                           THEN [lastRead EXCEPT ![t] = Unread] ELSE lastRead
    /\ UNCHANGED << branch, active, commitLock, pc, base, via, mainHead, retryHead, conflicts, ff, result, cleanupVars, engVars, sqlVars, catVars, fnVars, opVars, optVars, sesVars, lockVars >>

\* A write method of the transaction, given what its engine call returns.  An
\* engine error leaves by `?` before anything is assigned.  Otherwise
\* current_commit = new_commit, then update_branch(), RefManager::update_branch
\* on tx/<id>, which fails RefNotFound (after current_commit was set) when the
\* branch is gone.  The engine call only adds objects to the store, so the call
\* is one step.  `ks` are the keys of table tb the operation writes: a read of
\* one of them is now outdated.
ApplyWrite(t, tb, ks, res) ==
    /\ pc[t] = "active"
    /\ Len(current[t]) - Len(base[t]) < MaxWrites
    /\ IF res.err # ""
       THEN /\ writeErr' = [writeErr EXCEPT ![t] = res.err]
            /\ UNCHANGED << current, branch, lastRead >>
       ELSE /\ current' = [current EXCEPT ![t] = res.commit]
            /\ branch' = IF t \in DOMAIN branch THEN [branch EXCEPT ![t] = res.commit] ELSE branch
            /\ writeErr' = [writeErr EXCEPT ![t] = IF t \in DOMAIN branch THEN "" ELSE "RefNotFound"]
            /\ lastRead' = IF lastRead[t].table = tb /\ lastRead[t].key \in ks
                           THEN [lastRead EXCEPT ![t] = Unread] ELSE lastRead
    /\ UNCHANGED << main, active, commitLock, pc, base, via, mainHead, retryHead, conflicts, ff, result, cleanupVars, engVars, sqlVars, catVars, fnVars, opVars, optVars, sesVars, lockVars >>

TxCreateTable(t, tb) == ApplyWrite(t, tb, Keys, RepoCreateTable(tb, current[t], t))

TxDropTable(t, tb) == ApplyWrite(t, tb, Keys, RepoDropTable(tb, current[t], t))

TxInsert(t, tb, k, v) == ApplyWrite(t, tb, {k}, RepoInsertRow(tb, k, RowNew(v), current[t], t))

\* update: the caller passes a row it built with Row::new, or the stored row with_update.
TxUpdate(t, tb, k, v, fresh) ==
    ApplyWrite(t, tb, {k}, RepoUpdateRow(tb, k,
                   IF fresh THEN RowNew(v) ELSE WithUpdate(BlobAt(TreeAt(current[t]), tb, k), v),
                   current[t], t))

TxUpsert(t, tb, k, v) == ApplyWrite(t, tb, {k}, RepoUpsertRow(tb, k, RowNew(v), current[t], t))

TxDelete(t, tb, k) == ApplyWrite(t, tb, {k}, RepoDeleteRow(tb, k, current[t], t))

\* ------------------------------------------------------------------ reads
\* A faulty variant: reads go to the head of main.
ReadCommit_Main(t) == main

\* read_commit: always the transaction's current commit.
ReadCommit(t) == current[t]

\* read(table, key): read_row at read_commit(); what it returned is kept.
TxRead(t, tb, k) ==
    /\ pc[t] = "active"
    /\ lastRead' = [lastRead EXCEPT ![t] =
                      [table |-> tb, key |-> k,
                       status |-> RepoReadRow(tb, k, ReadCommit(t)).status,
                       row |-> RepoReadRow(tb, k, ReadCommit(t)).row]]
    /\ UNCHANGED << main, branch, active, commitLock, pc, base, current, via, mainHead, retryHead, conflicts, ff, result, writeErr, cleanupVars, engVars, sqlVars, catVars, fnVars, opVars, optVars, sesVars, lockVars >>

\* ----------------------------------------------------------------- commit
\* How commit() returns `res`.  Through commit_transaction an Ok goes on to
\* mark_completed; an Err leaves by `?`, which only drops the lock guard.
Return(t, viaT, res) ==
    /\ result' = [result EXCEPT ![t] = res]
    /\ pc' = [pc EXCEPT ![t] = IF viaT /\ res = "Committed" THEN "m_mark" ELSE "done"]
    /\ commitLock' = IF viaT /\ res # "Committed" THEN NoTx ELSE commitLock

\* commit(), `let main_head = self.repo.head()?` and the comparison with base_commit.
CommitHead(t) ==
    /\ mainHead' = [mainHead EXCEPT ![t] = main]
    /\ pc' = [pc EXCEPT ![t] = IF main # base[t] THEN "c_detect" ELSE "c_ff"]

\* commit_transaction: take the commit lock.  commit and rollback consume the
\* transaction; no read or write of it follows, and what its last read and its
\* last write returned is dropped.
CommitTransaction(t) ==
    /\ pc[t] = "active"
    /\ commitLock = NoTx
    /\ commitLock' = t
    /\ via' = [via EXCEPT ![t] = TRUE]
    /\ pc' = [pc EXCEPT ![t] = "c_head"]
    /\ lastRead' = [lastRead EXCEPT ![t] = Unread]
    /\ writeErr' = [writeErr EXCEPT ![t] = ""]
    /\ UNCHANGED << main, branch, active, base, current, mainHead, retryHead, conflicts, ff, result, cleanupVars, engVars, sqlVars, catVars, fnVars, opVars, optVars, sesVars, lockVars >>

\* commit_transaction, holding the lock: tx.commit() reads the head.
ManagerCommitHead(t) ==
    /\ pc[t] = "c_head"
    /\ CommitHead(t)
    /\ UNCHANGED << main, branch, active, commitLock, base, current, via, retryHead, conflicts, ff, result, writeErr, lastRead, cleanupVars, engVars, sqlVars, catVars, fnVars, opVars, optVars, sesVars, lockVars >>

\* Transaction::commit called on its own (as execute_commit does): no lock.
DirectCommit(t) ==
    /\ pc[t] = "active"
    /\ CommitHead(t)
    /\ lastRead' = [lastRead EXCEPT ![t] = Unread]
    /\ writeErr' = [writeErr EXCEPT ![t] = ""]
    /\ UNCHANGED << main, branch, active, commitLock, base, current, via, retryHead, conflicts, ff, result, cleanupVars, engVars, sqlVars, catVars, fnVars, opVars, optVars, sesVars, lockVars >>

\* commit(), main has moved: detect_conflicts(branch, main_head).  A missing
\* tx-branch is RefNotFound, which `?` returns.
CommitDetect(t) ==
    /\ pc[t] = "c_detect"
    /\ IF t \notin DOMAIN branch
       THEN /\ Return(t, via[t], "Storage")
            /\ UNCHANGED conflicts
       ELSE /\ conflicts' = [conflicts EXCEPT ![t] = DetectConflicts(branch[t], mainHead[t])]
            /\ pc' = [pc EXCEPT ![t] = IF conflicts'[t] # {} THEN "c_del_conflict" ELSE "c_ff"]
            /\ UNCHANGED << result, commitLock >>
    /\ UNCHANGED << main, branch, active, base, current, via, mainHead, retryHead, ff, writeErr, lastRead, cleanupVars, engVars, sqlVars, catVars, fnVars, opVars, optVars, sesVars, lockVars >>

\* A faulty variant: the head read at the start of commit() is the expected value.
ExpectedMain_Head(t) == mainHead[t]

\* commit(): the `expected` argument of fast_forward_main, self.base_commit.
ExpectedMain(t) == base[t]

\* commit(): fast_forward_main(branch, base_commit), one write-locked call that
\* resolves the tx-branch and compare-and-swaps main.
CommitFastForward(t) ==
    /\ pc[t] = "c_ff"
    /\ IF t \notin DOMAIN branch
       THEN /\ ff' = [ff EXCEPT ![t] = "RefNotFound"]
            /\ pc' = [pc EXCEPT ![t] = "c_del_err"]
            /\ UNCHANGED main
       ELSE LET cas == UpdateBranchIfUnchanged(main, ExpectedMain(t), branch[t])
            IN /\ main' = cas.target
               /\ ff' = [ff EXCEPT ![t] = IF cas.err = "" THEN "Ok" ELSE cas.err]
               /\ pc' = [pc EXCEPT ![t] = IF cas.err = "" THEN "c_del_ok" ELSE "c_retry_head"]
    /\ UNCHANGED << branch, active, commitLock, base, current, via, mainHead, retryHead, conflicts, result, writeErr, lastRead, cleanupVars, engVars, sqlVars, catVars, fnVars, opVars, optVars, sesVars, lockVars >>

\* commit(), ConcurrentModification arm: head() again.
CommitRetryHead(t) ==
    /\ pc[t] = "c_retry_head"
    /\ retryHead' = [retryHead EXCEPT ![t] = main]
    /\ pc' = [pc EXCEPT ![t] = "c_retry_detect"]
    /\ UNCHANGED << main, branch, active, commitLock, base, current, via, mainHead, conflicts, ff, result, writeErr, lastRead, cleanupVars, engVars, sqlVars, catVars, fnVars, opVars, optVars, sesVars, lockVars >>

\* commit(), ConcurrentModification arm: detect_conflicts again.
CommitRetryDetect(t) ==
    /\ pc[t] = "c_retry_detect"
    /\ IF t \notin DOMAIN branch
       THEN /\ Return(t, via[t], "Storage")
            /\ UNCHANGED conflicts
       ELSE /\ conflicts' = [conflicts EXCEPT ![t] = DetectConflicts(branch[t], retryHead[t])]
            /\ pc' = [pc EXCEPT ![t] = "c_del_conflict"]
            /\ UNCHANGED << result, commitLock >>
    /\ UNCHANGED << main, branch, active, base, current, via, mainHead, retryHead, ff, writeErr, lastRead, cleanupVars, engVars, sqlVars, catVars, fnVars, opVars, optVars, sesVars, lockVars >>

\* commit(): delete_transaction_branch (its error dropped), then the return of
\* the arm it stands in.
CommitDelete(t) ==
    /\ pc[t] \in {"c_del_conflict", "c_del_err", "c_del_ok"}
    /\ branch' = DeleteTransactionBranch(branch, t)
    /\ Return(t, via[t], CASE pc[t] = "c_del_conflict" -> "Conflict"
                           [] pc[t] = "c_del_err" -> "Storage"
                           [] pc[t] = "c_del_ok" -> "Committed")
    /\ UNCHANGED << main, active, base, current, via, mainHead, retryHead, conflicts, ff, writeErr, lastRead, cleanupVars, engVars, sqlVars, catVars, fnVars, opVars, optVars, sesVars, lockVars >>

\* A faulty variant: the id stays in the map.
MarkCompleted_Keep(act, t) == act

\* mark_completed: active.write().remove(tx_id).
MarkCompleted(act, t) == act \ {t}

\* mark_completed after a commit that returned Ok; commit_transaction returns
\* and the lock guard is dropped.
CommitMarkCompleted(t) ==
    /\ pc[t] = "m_mark"
    /\ active' = MarkCompleted(active, t)
    /\ commitLock' = NoTx
    /\ pc' = [pc EXCEPT ![t] = "done"]
    /\ UNCHANGED << main, branch, base, current, via, mainHead, retryHead, conflicts, ff, result, writeErr, lastRead, cleanupVars, engVars, sqlVars, catVars, fnVars, opVars, optVars, sesVars, lockVars >>

\* --------------------------------------------------------------- rollback
\* rollback(): delete_transaction_branch (its error dropped); Ok(Aborted).
Rollback(t, viaT) ==
    /\ pc[t] = "active"
    /\ branch' = DeleteTransactionBranch(branch, t)
    /\ result' = [result EXCEPT ![t] = "Aborted"]
    /\ via' = [via EXCEPT ![t] = viaT]
    /\ pc' = [pc EXCEPT ![t] = IF viaT THEN "r_mark" ELSE "done"]
    /\ lastRead' = [lastRead EXCEPT ![t] = Unread]
    /\ writeErr' = [writeErr EXCEPT ![t] = ""]
    /\ UNCHANGED << main, active, commitLock, base, current, mainHead, retryHead, conflicts, ff, cleanupVars, engVars, sqlVars, catVars, fnVars, opVars, optVars, sesVars, lockVars >>

\* rollback_transaction: tx.rollback(), then (next step) mark_completed.
RollbackTransaction(t) == Rollback(t, TRUE)

\* Transaction::rollback called on its own (as execute_rollback does).
DirectRollback(t) == Rollback(t, FALSE)

RollbackMarkCompleted(t) ==
    /\ pc[t] = "r_mark"
    /\ active' = MarkCompleted(active, t)
    /\ pc' = [pc EXCEPT ![t] = "done"]
    /\ UNCHANGED << main, branch, commitLock, base, current, via, mainHead, retryHead, conflicts, ff, result, writeErr, lastRead, cleanupVars, engVars, sqlVars, catVars, fnVars, opVars, optVars, sesVars, lockVars >>

\* ---------------------------------------------------------------- cleanup
\* cleanup_abandoned: the branches it will try to delete, those listed whose id
\* is not in its copy of the active ids.
CleanupTargets(listed, activeIds) == listed \ activeIds

\* cleanup_abandoned, first step: copy the keys of the active map.
CleanupSnapshot ==
    /\ cpc = "idle"
    /\ cleanups < MaxCleanups
    /\ cActive' = active
    /\ cleaned' = 0
    /\ cleanups' = cleanups + 1
    /\ cpc' = "list"
    /\ cDropped' = { t \in TxIds : pc[t] = "dropped" }
    /\ UNCHANGED << main, branch, active, commitLock, txVars, cTodo, engVars, sqlVars, catVars, fnVars, opVars, optVars, sesVars, lockVars >>

\* cleanup_abandoned, second step: list_transaction_branches.  The loop's test
\* `!active_ids.contains(tx_id)` reads locals only, so it is made here, and
\* active_ids, not read again, is forgotten.
CleanupList ==
    /\ cpc = "list"
    /\ cTodo' = CleanupTargets(DOMAIN branch, cActive)
    /\ cActive' = {}
    /\ cpc' = "loop"
    /\ UNCHANGED << main, branch, active, commitLock, txVars, cleaned, cleanups, cDropped, engVars, sqlVars, catVars, fnVars, opVars, optVars, sesVars, lockVars >>

\* cleanup_abandoned, one turn of the loop: delete_transaction_branch(tx_id),
\* counted when it succeeds.
CleanupDelete(b) ==
    /\ cpc = "loop"
    /\ b \in cTodo
    /\ branch' = DeleteTransactionBranch(branch, b)
    /\ cleaned' = IF b \in DOMAIN branch THEN cleaned + 1 ELSE cleaned
    /\ cTodo' = cTodo \ {b}
    /\ UNCHANGED << main, active, commitLock, txVars, cpc, cActive, cleanups, cDropped, engVars, sqlVars, catVars, fnVars, opVars, optVars, sesVars, lockVars >>

\* cleanup_abandoned returns Ok(cleaned).
CleanupReturn ==
    /\ cpc = "loop"
    /\ cTodo = {}
    /\ cpc' = "idle"
    /\ UNCHANGED << main, branch, active, commitLock, txVars, cActive, cTodo, cleaned, cleanups, cDropped, engVars, sqlVars, catVars, fnVars, opVars, optVars, sesVars, lockVars >>

Next ==
    \/ \E t \in TxIds : BeginHead(t)
    \/ \E t \in TxIds : BeginBranch(t)
    \/ \E t \in TxIds : BeginRegister(t)
    \/ \E t \in TxIds, tb \in Tables : TxCreateTable(t, tb)
    \/ \E t \in TxIds, tb \in Tables : TxDropTable(t, tb)
    \/ \E t \in TxIds, tb \in Tables, k \in Keys, v \in Vals : TxInsert(t, tb, k, v)
    \/ \E t \in TxIds, tb \in Tables, k \in Keys, v \in Vals, fresh \in BOOLEAN : TxUpdate(t, tb, k, v, fresh)
    \/ \E t \in TxIds, tb \in Tables, k \in Keys, v \in Vals : TxUpsert(t, tb, k, v)
    \/ \E t \in TxIds, tb \in Tables, k \in Keys : TxDelete(t, tb, k)
    \/ \E t \in TxIds, tb \in Tables, k \in Keys : TxRead(t, tb, k)
    \/ \E t \in TxIds : CommitTransaction(t)
    \/ \E t \in TxIds : ManagerCommitHead(t)
    \/ \E t \in TxIds : DirectCommit(t)
    \/ \E t \in TxIds : CommitDetect(t)
    \/ \E t \in TxIds : CommitFastForward(t)
    \/ \E t \in TxIds : CommitRetryHead(t)
    \/ \E t \in TxIds : CommitRetryDetect(t)
    \/ \E t \in TxIds : CommitDelete(t)
    \/ \E t \in TxIds : CommitMarkCompleted(t)
    \/ \E t \in TxIds : RollbackTransaction(t)
    \/ \E t \in TxIds : DirectRollback(t)
    \/ \E t \in TxIds : RollbackMarkCompleted(t)
    \/ CleanupSnapshot
    \/ CleanupList
    \/ \E b \in TxIds : CleanupDelete(b)
    \/ CleanupReturn

Spec == Init /\ [][Next]_vars

\* ==================================================== the engine, directly
\* The repository engine called directly, as the tests and the executor do,
\* beside a transaction that begins and writes.  A ref is main (MainRef) or
\* the tx-branch of that transaction.
MainRef == NoTx
\* The transaction that runs beside the direct client: the first one begun.
EngTx == CHOOSE t \in TxIds : \A u \in TxIds : t <= u
Refs == {MainRef, EngTx}

RefExists(b) == b = MainRef \/ b \in DOMAIN branch

\* RefManager::resolve_branch, for a ref that exists.
RefTarget(b) == IF b = MainRef THEN main ELSE branch[b]

\* The commit ids the client can hold: heads of refs and its own latest commit.
KnownCommits == {main, eCommit} \cup { branch[b] : b \in DOMAIN branch }

\* What the six engine mutations return at commit `at`, for every argument.
EngineMutations(at) ==
    { RepoCreateTable(tb, at, NoTx) : tb \in Tables }
    \cup { RepoDropTable(tb, at, NoTx) : tb \in Tables }
    \cup { RepoInsertRow(p[1], p[2], RowNew(p[3]), at, NoTx) : p \in Tables \X Keys \X Vals }
    \cup { RepoUpdateRow(p[1], p[2], WithUpdate(BlobAt(TreeAt(at), p[1], p[2]), p[3]), at, NoTx) : p \in Tables \X Keys \X Vals }
    \cup { RepoUpsertRow(p[1], p[2], RowNew(p[3]), at, NoTx) : p \in Tables \X Keys \X Vals }
    \cup { RepoDeleteRow(p[1], p[2], at, NoTx) : p \in Tables \X Keys }

\* A faulty variant: the mutation's CommitBuilder is given update_ref(main).
EngMutate_UpdateRef(at, res) ==
    /\ at \in KnownCommits
    /\ res \in EngineMutations(at)
    /\ res.err = "" => Len(res.commit) <= MaxChain
    /\ eCommit' = IF res.err = "" THEN res.commit ELSE eCommit
    /\ main' = IF res.err = "" THEN res.commit ELSE main
    /\ eCall' = [NoCall EXCEPT !.op = "mutate", !.err = res.err]
    /\ UNCHANGED << branch, active, commitLock, txVars, cleanupVars, sqlVars, catVars, fnVars, opVars, optVars, sesVars, lockVars >>

\* create_table, drop_table, insert_row, update_row, upsert_row, delete_row at
\* `at`: with_repo_mut, a new tree, CommitBuilder .parent(at) with no update_ref.
EngMutate(at, res) ==
    /\ at \in KnownCommits
    /\ res \in EngineMutations(at)
    /\ res.err = "" => Len(res.commit) <= MaxChain
    /\ eCommit' = IF res.err = "" THEN res.commit ELSE eCommit
    /\ eCall' = [NoCall EXCEPT !.op = "mutate", !.err = res.err]
    /\ UNCHANGED << main, branch, active, commitLock, txVars, cleanupVars, sqlVars, catVars, fnVars, opVars, optVars, sesVars, lockVars >>

\* The refs after ref b, which exists, is set to commit c.
SetRef(b, c) ==
    /\ main' = IF b = MainRef THEN c ELSE main
    /\ branch' = IF b = MainRef THEN branch ELSE [branch EXCEPT ![b] = c]

\* GitRepository::update_branch(b, eCommit): the force update.
EngUpdateBranch(b) ==
    /\ IF RefExists(b)
       THEN /\ SetRef(b, eCommit)
            /\ eCall' = [NoCall EXCEPT !.op = "update_branch", !.ref = b, !.err = ""]
       ELSE /\ UNCHANGED << main, branch >>
            /\ eCall' = [NoCall EXCEPT !.op = "update_branch", !.ref = b, !.err = "RefNotFound"]
    /\ UNCHANGED << active, commitLock, txVars, cleanupVars, eCommit, sqlVars, catVars, fnVars, opVars, optVars, sesVars, lockVars >>

\* RefManager::update_branch_if_unchanged(b, expected, eCommit) under with_repo_mut.
EngCompareAndSwap(b, expected) ==
    /\ IF RefExists(b)
       THEN LET cas == UpdateBranchIfUnchanged(RefTarget(b), expected, eCommit)
            IN /\ SetRef(b, cas.target)
               /\ eCall' = [op |-> "update_branch_if_unchanged", ref |-> b, err |-> cas.err]
       ELSE /\ UNCHANGED << main, branch >>
            /\ eCall' = [op |-> "update_branch_if_unchanged", ref |-> b, err |-> "RefNotFound"]
    /\ UNCHANGED << active, commitLock, txVars, cleanupVars, eCommit, sqlVars, catVars, fnVars, opVars, optVars, sesVars, lockVars >>

\* GitRepository::fast_forward_main(b, expected_main).
EngFastForwardMain(b, expected) ==
    /\ IF RefExists(b)
       THEN LET cas == UpdateBranchIfUnchanged(main, expected, RefTarget(b))
            IN /\ main' = cas.target
               /\ eCall' = [op |-> "fast_forward_main", ref |-> b, err |-> cas.err]
       ELSE /\ UNCHANGED main
            /\ eCall' = [op |-> "fast_forward_main", ref |-> b, err |-> "RefNotFound"]
    /\ UNCHANGED << branch, active, commitLock, txVars, cleanupVars, eCommit, sqlVars, catVars, fnVars, opVars, optVars, sesVars, lockVars >>

\* delete_transaction_branch(b).
EngDeleteBranch(b) ==
    /\ branch' = DeleteTransactionBranch(branch, b)
    /\ eCall' = [NoCall EXCEPT !.op = "delete_branch", !.ref = b, !.err = IF b \in DOMAIN branch THEN "" ELSE "RefNotFound"]
    /\ UNCHANGED << main, active, commitLock, txVars, cleanupVars, eCommit, sqlVars, catVars, fnVars, opVars, optVars, sesVars, lockVars >>

NextEngine ==
    \/ \E t \in {EngTx} : BeginHead(t)
    \/ \E t \in {EngTx} : BeginBranch(t)
    \/ \E t \in {EngTx} : BeginRegister(t)
    \/ \E t \in {EngTx}, tb \in Tables, k \in Keys, v \in Vals : TxInsert(t, tb, k, v)
    \/ \E at \in KnownCommits : \E res \in EngineMutations(at) : EngMutate(at, res)
    \/ \E b \in Refs : EngUpdateBranch(b)
    \/ \E b \in Refs, expected \in KnownCommits : EngCompareAndSwap(b, expected)
    \/ \E b \in Refs, expected \in KnownCommits : EngFastForwardMain(b, expected)
    \/ \E b \in Refs \ {MainRef} : EngDeleteBranch(b)

\* The client starts on a repository that holds table "t".
InitEngine == Init /\ main = SetupCommit

SpecEngine == InitEngine /\ [][NextEngine]_vars

\* ================================================= dropped transactions
\* A Transaction<TxActive> goes out of scope without commit or rollback.  The
\* type has no Drop implementation: nothing runs, the tx-branch and the entry
\* of the active map stay.
DropTx(t) ==
    /\ pc[t] = "active"
    /\ pc' = [pc EXCEPT ![t] = "dropped"]
    /\ lastRead' = [lastRead EXCEPT ![t] = Unread]
    /\ writeErr' = [writeErr EXCEPT ![t] = ""]
    /\ UNCHANGED << main, branch, active, commitLock, base, current, via, mainHead, retryHead, conflicts, ff, result, cleanupVars, engVars, sqlVars, catVars, fnVars, opVars, optVars, sesVars, lockVars >>

\* Transactions that begin, write and are dropped, and cleanup_abandoned.
NextDrop ==
    \/ \E t \in TxIds : BeginHead(t)
    \/ \E t \in TxIds : BeginBranch(t)
    \/ \E t \in TxIds : BeginRegister(t)
    \/ \E t \in TxIds, tb \in Tables : TxCreateTable(t, tb)
    \/ \E t \in TxIds, tb \in Tables, k \in Keys, v \in Vals : TxInsert(t, tb, k, v)
    \/ \E t \in TxIds : DropTx(t)
    \/ CleanupSnapshot
    \/ CleanupList
    \/ \E b \in TxIds : CleanupDelete(b)
    \/ CleanupReturn

SpecDrop == Init /\ [][NextDrop]_vars

\* ======================================================== the SQL session
\* One QueryExecutor: its catalog, its transaction manager and its current_tx,
\* executing statements on a new database.

\* The table names the statements use, and catalog::manager's SCHEMA_DIR.
SqlNameSeq == << "users", "_users" >>
SqlNames == { SqlNameSeq[i] : i \in 1..Len(SqlNameSeq) }
SCHEMA_DIR == "_schemas"

\* The characters of a name.
Chars(n) ==
    CASE n = "t" -> << "t" >>
      [] n = "users" -> << "u", "s", "e", "r", "s" >>
      [] n = "_users" -> << "_", "u", "s", "e", "r", "s" >>
      [] n = "_schemas" -> << "_", "s", "c", "h", "e", "m", "a", "s" >>
      [] n = "_schema" -> << "_", "s", "c", "h", "e", "m", "a" >>
      [] n = "_meta" -> << "_", "m", "e", "t", "a" >>
      [] n = "_system" -> << "_", "s", "y", "s", "t", "e", "m" >>
      [] n = "_git" -> << "_", "g", "i", "t" >>
      [] OTHER -> << >>

\* The ASCII characters from '-' (45) to 'z' (122), in byte order (two of them
\* spelled out).
Ascii ==
 << "-", ".", "/", "0", "1", "2", "3", "4", "5", "6", "7", "8", "9",
    ":", ";", "<", "=", ">", "?", "@", "A", "B", "C", "D", "E", "F",
    "G", "H", "I", "J", "K", "L", "M", "N", "O", "P", "Q", "R", "S",
    "T", "U", "V", "W", "X", "Y", "Z", "[", "backslash", "]", "^", "_", "backquote",
    "a", "b", "c", "d", "e", "f", "g", "h", "i", "j", "k", "l", "m",
    "n", "o", "p", "q", "r", "s", "t", "u", "v", "w", "x", "y", "z" >>

\* The byte of an ASCII character.
Code(c) == 44 + CHOOSE i \in 1..Len(Ascii) : Ascii[i] = c

\* char::is_ascii_alphanumeric.
IsAsciiAlphanumeric(c) == Code(c) \in (48..57) \cup (65..90) \cup (97..122)

\* str::to_lowercase, on ASCII names.
ToLowercase(cs) ==
    [i \in 1..Len(cs) |-> IF Code(cs[i]) \in 65..90 THEN Ascii[Code(cs[i]) + 32 - 44] ELSE cs[i]]

RESERVED == {"_schema", "_meta", "_system", "_git"}

\* TableName::validate on the characters of a name: the error, "" when the
\* name is accepted.
TableNameValidate(cs) ==
    IF Len(cs) = 0 THEN "Empty"
    ELSE IF Len(cs) > 64 THEN "TooLong"
    ELSE IF IsAsciiAlphanumeric(cs[1]) /\ cs[1] # "_" THEN "InvalidStart"
    ELSE IF \E i \in 1..Len(cs) :
                ~IsAsciiAlphanumeric(cs[i]) /\ cs[i] # "_" /\ cs[i] # "-"
         THEN "InvalidCharacter"
    ELSE IF \E r \in RESERVED : Chars(r) = ToLowercase(cs) THEN "Reserved"
    ELSE ""

\* RowKey::validate on the characters of a key.
RowKeyValidate(cs) ==
    IF Len(cs) = 0 THEN "Empty"
    ELSE IF Len(cs) > 128 THEN "TooLong"
    ELSE IF \E i \in 1..Len(cs) :
                ~IsAsciiAlphanumeric(cs[i]) /\ cs[i] # "_" /\ cs[i] # "-"
         THEN "InvalidCharacter"
    ELSE ""

\* TableName::new: the error, "" when the name is accepted.
TableNameNew(n) == TableNameValidate(Chars(n))

\* RowKey::new(name): the key of the schema row of table `name`.
SchemaKey(n) == CHOOSE i \in 1..Len(SqlNameSeq) : SqlNameSeq[i] = n

\* Catalog::table_exists at head.
CatalogTableExists(n, head) == RowExists(TreeAt(head), SCHEMA_DIR, SchemaKey(n))

\* Catalog::create_table: [err, commit], commit being main afterwards.
CatalogCreateTable(n, head) ==
    LET h == IF ~TableExists(TreeAt(head), SCHEMA_DIR)
             THEN RepoCreateTable(SCHEMA_DIR, head, NoTx).commit
             ELSE head
    IN IF RowExists(TreeAt(h), SCHEMA_DIR, SchemaKey(n)) THEN Err("TableExists", head)
       ELSE Ok(RepoUpsertRow(SCHEMA_DIR, SchemaKey(n), RowNew(1), h, NoTx).commit)

\* Catalog::drop_table: [err, commit], commit being main afterwards.
CatalogDropTable(n, head) ==
    IF ~TableExists(TreeAt(head), SCHEMA_DIR) THEN Err("TableNotFound", head)
    ELSE IF ~RowExists(TreeAt(head), SCHEMA_DIR, SchemaKey(n)) THEN Err("TableNotFound", head)
    ELSE Ok(RepoDeleteRow(SCHEMA_DIR, SchemaKey(n), head, NoTx).commit)

\* execute_create_table: [err, commit], commit being main when it returns.
ExecCreateTable(n, head) ==
    IF CatalogTableExists(n, head) THEN Err("TableNotFound", head)
    ELSE LET cat == CatalogCreateTable(n, head)
         IN IF cat.err # "" THEN Err(cat.err, head)
            ELSE IF TableNameNew(n) # "" THEN Err(TableNameNew(n), cat.commit)
            ELSE LET st == RepoCreateTable(n, cat.commit, NoTx)
                 IN IF st.err # "" THEN Err(st.err, cat.commit) ELSE Ok(st.commit)

\* execute_drop_table.
ExecDropTable(n, head) ==
    IF ~CatalogTableExists(n, head) THEN Err("TableNotFound", head)
    ELSE LET cat == CatalogDropTable(n, head)
         IN IF cat.err # "" THEN Err(cat.err, head)
            ELSE IF TableNameNew(n) # "" THEN Err(TableNameNew(n), cat.commit)
            ELSE LET st == RepoDropTable(n, cat.commit, NoTx)
                 IN IF st.err # "" THEN Err(st.err, cat.commit) ELSE Ok(st.commit)

\* The loop of execute_insert: insert_row for each row in turn, from head.
RECURSIVE InsertRows(_, _, _)
InsertRows(n, ks, head) ==
    IF ks = << >> THEN Ok(head)
    ELSE LET r == RepoInsertRow(n, Head(ks), RowNew(1), head, NoTx)
         IN IF r.err # "" THEN r ELSE InsertRows(n, Tail(ks), r.commit)

\* execute_insert: the ref is updated once, after the loop.
ExecInsert(n, ks, head) ==
    IF ~CatalogTableExists(n, head) THEN Err("TableNotFound", head)
    ELSE IF TableNameNew(n) # "" THEN Err(TableNameNew(n), head)
    ELSE LET r == InsertRows(n, ks, head)
         IN IF r.err # "" THEN Err(r.err, head) ELSE r

\* scan_table: the keys of the rows of table n, in order.
RECURSIVE ScanKeys(_, _, _)
ScanKeys(tree, n, k) ==
    IF k > NumKeys THEN << >>
    ELSE (IF tree[n][k] # NoRow THEN << k >> ELSE << >>) \o ScanKeys(tree, n, k + 1)

\* The loop of execute_update: with_update and update_row for each row matched.
RECURSIVE UpdateRows(_, _, _, _)
UpdateRows(n, ks, matched, head) ==
    IF ks = << >> THEN Ok(head)
    ELSE IF Head(ks) \notin matched THEN UpdateRows(n, Tail(ks), matched, head)
    ELSE LET row == TreeAt(head)[n][Head(ks)]
             r == RepoUpdateRow(n, Head(ks), WithUpdate(row, row.val), head, NoTx)
         IN IF r.err # "" THEN r ELSE UpdateRows(n, Tail(ks), matched, r.commit)

\* execute_update on the rows whose key the WHERE clause matches.
ExecUpdate(n, matched, head) ==
    IF ~CatalogTableExists(n, head) THEN Err("TableNotFound", head)
    ELSE IF TableNameNew(n) # "" THEN Err(TableNameNew(n), head)
    ELSE IF ~TableExists(TreeAt(head), n) THEN Err("TableNotFound", head)
    ELSE LET r == UpdateRows(n, ScanKeys(TreeAt(head), n, 1), matched, head)
         IN IF r.err # "" THEN Err(r.err, head) ELSE r

\* The loop of execute_delete.
RECURSIVE DeleteRows(_, _, _, _)
DeleteRows(n, ks, matched, head) ==
    IF ks = << >> THEN Ok(head)
    ELSE IF Head(ks) \notin matched THEN DeleteRows(n, Tail(ks), matched, head)
    ELSE LET r == RepoDeleteRow(n, Head(ks), head, NoTx)
         IN IF r.err # "" THEN r ELSE DeleteRows(n, Tail(ks), matched, r.commit)

\* execute_delete: no catalog lookup.
ExecDelete(n, matched, head) ==
    IF TableNameNew(n) # "" THEN Err(TableNameNew(n), head)
    ELSE IF ~TableExists(TreeAt(head), n) THEN Err("TableNotFound", head)
    ELSE LET r == DeleteRows(n, ScanKeys(TreeAt(head), n, 1), matched, head)
         IN IF r.err # "" THEN Err(r.err, head) ELSE r

\* The row lists an INSERT statement may carry.
InsertLists == { << k >> : k \in Keys } \cup { << p[1], p[2] >> : p \in Keys \X Keys }

\* A statement that ends with main at r.commit and the result r.err.
Finish(op, n, r) ==
    /\ main' = r.commit
    /\ stmt' = [op |-> op, table |-> n, err |-> r.err]
    /\ nStmt' = nStmt + 1

SqlCreateTable(n) ==
    /\ nStmt < MaxStmts
    /\ Finish("CREATE TABLE", n, ExecCreateTable(n, main))
    /\ UNCHANGED << branch, active, commitLock, txVars, cleanupVars, engVars, catVars, fnVars, opVars, optVars, sesVars, lockVars, currentTx, inTx, selected >>

SqlDropTable(n) ==
    /\ nStmt < MaxStmts
    /\ Finish("DROP TABLE", n, ExecDropTable(n, main))
    /\ UNCHANGED << branch, active, commitLock, txVars, cleanupVars, engVars, catVars, fnVars, opVars, optVars, sesVars, lockVars, currentTx, inTx, selected >>

\* execute_insert: it never looks at current_tx.
SqlInsert(n, ks) ==
    /\ nStmt < MaxStmts
    /\ Finish("INSERT", n, ExecInsert(n, ks, main))
    /\ inTx' = IF currentTx # NoTx /\ ExecInsert(n, ks, main).err = ""
               THEN inTx \cup { << n, ks[i] >> : i \in 1..Len(ks) }
               ELSE inTx
    /\ UNCHANGED << branch, active, commitLock, txVars, cleanupVars, engVars, catVars, fnVars, opVars, optVars, sesVars, lockVars, currentTx, selected >>

SqlUpdate(n, matched) ==
    /\ nStmt < MaxStmts
    /\ Finish("UPDATE", n, ExecUpdate(n, matched, main))
    /\ UNCHANGED << branch, active, commitLock, txVars, cleanupVars, engVars, catVars, fnVars, opVars, optVars, sesVars, lockVars, currentTx, inTx, selected >>

SqlDelete(n, matched) ==
    /\ nStmt < MaxStmts
    /\ Finish("DELETE", n, ExecDelete(n, matched, main))
    /\ UNCHANGED << branch, active, commitLock, txVars, cleanupVars, engVars, catVars, fnVars, opVars, optVars, sesVars, lockVars, currentTx, inTx, selected >>

\* execute_select through scan_table: the rows of the table at head.
SqlSelect(n) ==
    /\ nStmt < MaxStmts
    /\ LET e == IF TableNameNew(n) # "" THEN TableNameNew(n)
                ELSE IF ~TableExists(TreeAt(main), n) THEN "TableNotFound" ELSE ""
       IN /\ Finish("SELECT", n, [err |-> e, commit |-> main])
          /\ selected' = IF e # "" THEN selected
                         ELSE [table |-> n, keys |-> { k \in Keys : TreeAt(main)[n][k] # NoRow }]
    /\ UNCHANGED << branch, active, commitLock, txVars, cleanupVars, engVars, catVars, fnVars, opVars, optVars, sesVars, lockVars, currentTx, inTx >>

\* A faulty variant: BEGIN does not look at current_tx.
SqlBegin_Nested ==
    /\ nStmt < MaxStmts
    /\ \E t \in TxIds :
            /\ pc[t] = "idle"
            /\ \A u \in TxIds : u < t => pc[u] # "idle"
            /\ Finish("BEGIN", "", Ok(main))
            /\ base' = [base EXCEPT ![t] = RepoHead]
            /\ current' = [current EXCEPT ![t] = RepoHead]
            /\ branch' = [x \in DOMAIN branch \cup {t} |-> IF x = t THEN RepoHead ELSE branch[x]]
            /\ active' = active \cup {t}
            /\ pc' = [pc EXCEPT ![t] = "active"]
            /\ currentTx' = t
            /\ inTx' = {}
    /\ UNCHANGED << commitLock, via, mainHead, retryHead, conflicts, ff, result, writeErr, lastRead, cleanupVars, engVars, catVars, fnVars, opVars, optVars, sesVars, lockVars, selected >>

\* execute_begin: tx_manager.begin() for the next id, kept in current_tx.
SqlBegin ==
    /\ nStmt < MaxStmts
    /\ IF currentTx # NoTx
       THEN /\ Finish("BEGIN", "", Err("Internal", main))
            /\ UNCHANGED << branch, active, pc, base, current, currentTx, inTx >>
       ELSE \E t \in TxIds :
            /\ pc[t] = "idle"
            /\ \A u \in TxIds : u < t => pc[u] # "idle"
            /\ Finish("BEGIN", "", Ok(main))
            /\ base' = [base EXCEPT ![t] = RepoHead]
            /\ current' = [current EXCEPT ![t] = RepoHead]
            /\ branch' = [x \in DOMAIN branch \cup {t} |-> IF x = t THEN RepoHead ELSE branch[x]]
            /\ active' = active \cup {t}
            /\ pc' = [pc EXCEPT ![t] = "active"]
            /\ currentTx' = t
            /\ inTx' = {}
    /\ UNCHANGED << commitLock, via, mainHead, retryHead, conflicts, ff, result, writeErr, lastRead, cleanupVars, engVars, catVars, fnVars, opVars, optVars, sesVars, lockVars, selected >>

\* execute_rollback: current_tx.take(), then Transaction::rollback.
SqlRollback ==
    /\ nStmt < MaxStmts
    /\ IF currentTx = NoTx
       THEN /\ Finish("ROLLBACK", "", Err("NoTransaction", main))
            /\ UNCHANGED << branch, pc, result, currentTx >>
       ELSE /\ Finish("ROLLBACK", "", Ok(main))
            /\ branch' = DeleteTransactionBranch(branch, currentTx)
            /\ result' = [result EXCEPT ![currentTx] = "Aborted"]
            /\ pc' = [pc EXCEPT ![currentTx] = "done"]
            /\ currentTx' = NoTx
    /\ UNCHANGED << active, commitLock, base, current, via, mainHead, retryHead, conflicts, ff, writeErr, lastRead, cleanupVars, engVars, catVars, fnVars, opVars, optVars, sesVars, lockVars, inTx, selected >>

\* Transaction::commit run in one piece by the only thread there is: what it
\* returns and where it leaves main.  The tx-branch is deleted on every arm.
TxCommit(t) ==
    IF t \notin DOMAIN branch THEN [res |-> "Storage", main |-> main]
    ELSE IF main # base[t] /\ DetectConflicts(branch[t], main) # {}
    THEN [res |-> "Conflict", main |-> main]
    ELSE LET cas == UpdateBranchIfUnchanged(main, ExpectedMain(t), branch[t])
         IN IF cas.err = "" THEN [res |-> "Committed", main |-> cas.target]
            ELSE [res |-> "Conflict", main |-> main]

\* execute_commit: current_tx.take(), then Transaction::commit; the manager's
\* commit_transaction and mark_completed are not called.
SqlCommit ==
    /\ nStmt < MaxStmts
    /\ IF currentTx = NoTx
       THEN /\ Finish("COMMIT", "", Err("NoTransaction", main))
            /\ UNCHANGED << branch, pc, result, currentTx >>
       ELSE LET r == TxCommit(currentTx)
            IN /\ Finish("COMMIT", "", [err |-> IF r.res = "Committed" THEN "" ELSE r.res,
                                        commit |-> r.main])
               /\ branch' = DeleteTransactionBranch(branch, currentTx)
               /\ result' = [result EXCEPT ![currentTx] = r.res]
               /\ pc' = [pc EXCEPT ![currentTx] = "done"]
               /\ currentTx' = NoTx
    /\ UNCHANGED << active, commitLock, base, current, via, mainHead, retryHead, conflicts, ff, writeErr, lastRead, cleanupVars, engVars, catVars, fnVars, opVars, optVars, sesVars, lockVars, inTx, selected >>

NextSql ==
    \/ \E n \in SqlNames : SqlCreateTable(n)
    \/ \E n \in SqlNames : SqlDropTable(n)
    \/ \E n \in SqlNames, ks \in InsertLists : SqlInsert(n, ks)
    \/ \E n \in SqlNames, matched \in SUBSET Keys : SqlUpdate(n, matched)
    \/ \E n \in SqlNames, matched \in SUBSET Keys : SqlDelete(n, matched)
    \/ \E n \in SqlNames : SqlSelect(n)
    \/ SqlBegin
    \/ SqlCommit
    \/ SqlRollback

\* A new database: init() has made the initial commit.
InitSql == Init /\ main = InitialCommit

SpecSql == InitSql /\ [][NextSql]_vars

\* ====================================================== concurrent sessions
\* Every connection has a QueryExecutor of its own, and QueryExecutor::new wraps
\* its clone of the repository in a lock of its own: the write guard a statement
\* holds excludes no other session.  What sessions share is the repository, and
\* each call on it (head, update_branch) is a step that sessions interleave.  The
\* engine's mutations build commits from a commit id and touch no ref, so they
\* belong to the step that read the head they start from.
SesTable == "_users"

\* The statement of session s ends with error e, or goes on at pc with `head`.
SesGoes(s, pcNext, head, e) ==
    ses' = [ses EXCEPT ![s] = [@ EXCEPT !.pc = IF e # "" THEN "idle" ELSE pcNext,
                                        !.head = IF e # "" THEN @ ELSE head,
                                        !.err = e]]

\* A session starts a statement: CREATE TABLE, INSERT of row k or DELETE of row k.
SesBegin(s, op, k) ==
    /\ ses[s].pc = "idle"
    /\ ses[s].calls < MaxSesStmts
    /\ ses' = [ses EXCEPT ![s] = [pc |-> op, op |-> op, key |-> k, head |-> InitialCommit,
                                  err |-> "", calls |-> ses[s].calls + 1]]
    /\ UNCHANGED << main, written, branch, active, commitLock, txVars, cleanupVars, engVars, sqlVars, catVars, fnVars, opVars, optVars, lockVars >>

\* execute_create_table: catalog.table_exists, which reads the head.
SesCreateExists(s) ==
    /\ ses[s].pc = "CREATE TABLE"
    /\ SesGoes(s, "cat_head", ses[s].head,
               IF CatalogTableExists(SesTable, main) THEN "TableNotFound" ELSE "")
    /\ UNCHANGED << main, written, branch, active, commitLock, txVars, cleanupVars, engVars, sqlVars, catVars, fnVars, opVars, optVars, lockVars >>

\* Catalog::create_table up to its update_branch: head and the commits on it.
SesCatalogHead(s) ==
    /\ ses[s].pc = "cat_head"
    /\ LET r == CatalogCreateTable(SesTable, main)
       IN SesGoes(s, "cat_update", r.commit, r.err)
    /\ UNCHANGED << main, written, branch, active, commitLock, txVars, cleanupVars, engVars, sqlVars, catVars, fnVars, opVars, optVars, lockVars >>

\* execute_create_table after the catalog: head, TableName::new, create_table.
SesStorageHead(s) ==
    /\ ses[s].pc = "sto_head"
    /\ LET r == IF TableNameNew(SesTable) # "" THEN Err(TableNameNew(SesTable), main)
                ELSE RepoCreateTable(SesTable, main, NoTx)
       IN SesGoes(s, "sto_update", r.commit, r.err)
    /\ UNCHANGED << main, written, branch, active, commitLock, txVars, cleanupVars, engVars, sqlVars, catVars, fnVars, opVars, optVars, lockVars >>

\* execute_insert: catalog.get_table, which reads the head.
SesInsertCatalog(s) ==
    /\ ses[s].pc = "INSERT"
    /\ SesGoes(s, "ins_head", ses[s].head,
               IF CatalogTableExists(SesTable, main) THEN "" ELSE "TableNotFound")
    /\ UNCHANGED << main, written, branch, active, commitLock, txVars, cleanupVars, engVars, sqlVars, catVars, fnVars, opVars, optVars, lockVars >>

\* execute_insert: head, TableName::new and insert_row on it.
SesInsertHead(s) ==
    /\ ses[s].pc = "ins_head"
    /\ LET r == IF TableNameNew(SesTable) # "" THEN Err(TableNameNew(SesTable), main)
                ELSE InsertRows(SesTable, << ses[s].key >>, main)
       IN SesGoes(s, "ins_update", r.commit, r.err)
    /\ UNCHANGED << main, written, branch, active, commitLock, txVars, cleanupVars, engVars, sqlVars, catVars, fnVars, opVars, optVars, lockVars >>

\* execute_delete: head, TableName::new, scan_table and delete_row on it.
SesDeleteHead(s) ==
    /\ ses[s].pc = "DELETE"
    /\ LET r == ExecDelete(SesTable, {ses[s].key}, main)
       IN SesGoes(s, "del_update", r.commit, r.err)
    /\ UNCHANGED << main, written, branch, active, commitLock, txVars, cleanupVars, engVars, sqlVars, catVars, fnVars, opVars, optVars, lockVars >>

\* update_branch(main, head): the ref is set, whatever it pointed at.  It ends
\* Catalog::create_table, and it ends the statement with Ok.
SesUpdateBranch(s) ==
    /\ ses[s].pc \in {"cat_update", "sto_update", "ins_update", "del_update"}
    /\ main' = ses[s].head
    /\ ses' = [ses EXCEPT ![s] = [@ EXCEPT !.pc = IF @ = "cat_update" THEN "sto_head" ELSE "idle"]]
    /\ written' = CASE ses[s].pc = "ins_update" -> written \cup {ses[s].key}
                    [] ses[s].pc = "del_update" -> written \ {ses[s].key}
                    [] OTHER -> written
    /\ UNCHANGED << branch, active, commitLock, txVars, cleanupVars, engVars, sqlVars, catVars, fnVars, opVars, optVars, lockVars >>

NextSessions ==
    \/ \E s \in Sessions : SesBegin(s, "CREATE TABLE", 0)
    \/ \E s \in Sessions, k \in Keys : SesBegin(s, "INSERT", k)
    \/ \E s \in Sessions, k \in Keys : SesBegin(s, "DELETE", k)
    \/ \E s \in Sessions : SesCreateExists(s)
    \/ \E s \in Sessions : SesCatalogHead(s)
    \/ \E s \in Sessions : SesStorageHead(s)
    \/ \E s \in Sessions : SesInsertCatalog(s)
    \/ \E s \in Sessions : SesInsertHead(s)
    \/ \E s \in Sessions : SesDeleteHead(s)
    \/ \E s \in Sessions : SesUpdateBranch(s)

\* A new database.
InitSessions == Init /\ main = InitialCommit

SpecSessions == InitSessions /\ [][NextSessions]_vars

\* ================================================================== locks
\* The threads that share one TransactionManager, and the three locks their
\* calls take: the commit mutex (commit_lock), the lock of the active map and
\* the lock inside GitRepository.  A call is the sequence of lock and unlock
\* steps its code makes; what the calls do to the data is left to the
\* specifications above, so every call may be made at any time and a commit may
\* take any of its arms.
LockStep(l, m) == [do |-> "lock", lock |-> l, mode |-> m]
UnlockStep(l, m) == [do |-> "unlock", lock |-> l, mode |-> m]

\* One call on the repository through with_repo (read) or with_repo_mut (write),
\* and one access to the active map: the guard is dropped when the call ends.
WithRepo == << LockStep("repo", "r"), UnlockStep("repo", "r") >>
WithRepoMut == << LockStep("repo", "w"), UnlockStep("repo", "w") >>
ActiveRead == << LockStep("active", "r"), UnlockStep("active", "r") >>
ActiveWrite == << LockStep("active", "w"), UnlockStep("active", "w") >>

ThreadOps ==
    {"begin", "write", "read", "commit_ok", "commit_conflict", "commit_retry", "rollback", "cleanup"}

\* A faulty variant: begin registers the transaction while it still holds the
\* repository lock, and cleanup_abandoned keeps its read guard on the active map
\* while it lists and deletes branches.
Script_Nested(op) ==
    CASE op = "begin" ->
            WithRepo \o << LockStep("repo", "w") >> \o ActiveWrite \o << UnlockStep("repo", "w") >>
      [] op = "write" -> WithRepoMut
      [] op = "read" -> WithRepo
      [] op = "commit_ok" ->
            << LockStep("commit", "x") >> \o WithRepo \o WithRepoMut \o WithRepoMut
               \o ActiveWrite \o << UnlockStep("commit", "x") >>
      [] op = "commit_conflict" ->
            << LockStep("commit", "x") >> \o WithRepo \o WithRepo \o WithRepoMut
               \o << UnlockStep("commit", "x") >>
      [] op = "commit_retry" ->
            << LockStep("commit", "x") >> \o WithRepo \o WithRepo \o WithRepoMut \o WithRepo
               \o WithRepo \o WithRepoMut \o << UnlockStep("commit", "x") >>
      [] op = "rollback" -> WithRepoMut \o ActiveWrite
      [] op = "cleanup" ->
            << LockStep("active", "r") >> \o WithRepo \o WithRepoMut \o << UnlockStep("active", "r") >>

\* The lock and unlock steps of each call, in the order of its code.
\*   begin: head, create_transaction_branch, active.write().insert.
\*   write / read: one mutation, one read of the engine.
\*   commit_transaction, holding the commit mutex to its return:
\*     commit_ok: head, fast_forward_main, delete_transaction_branch, mark_completed;
\*     commit_conflict: head, detect_conflicts, delete_transaction_branch, Err;
\*     commit_retry: head, detect_conflicts, fast_forward_main (failed), head,
\*                   detect_conflicts, delete_transaction_branch, Err.
\*   rollback_transaction: delete_transaction_branch, mark_completed.
\*   cleanup_abandoned: active.read() (a temporary), list_transaction_branches,
\*                      delete_transaction_branch.
Script(op) ==
    CASE op = "begin" -> WithRepo \o WithRepoMut \o ActiveWrite
      [] op = "write" -> WithRepoMut
      [] op = "read" -> WithRepo
      [] op = "commit_ok" ->
            << LockStep("commit", "x") >> \o WithRepo \o WithRepoMut \o WithRepoMut
               \o ActiveWrite \o << UnlockStep("commit", "x") >>
      [] op = "commit_conflict" ->
            << LockStep("commit", "x") >> \o WithRepo \o WithRepo \o WithRepoMut
               \o << UnlockStep("commit", "x") >>
      [] op = "commit_retry" ->
            << LockStep("commit", "x") >> \o WithRepo \o WithRepo \o WithRepoMut \o WithRepo
               \o WithRepo \o WithRepoMut \o << UnlockStep("commit", "x") >>
      [] op = "rollback" -> WithRepoMut \o ActiveWrite
      [] op = "cleanup" -> ActiveRead \o WithRepo \o WithRepoMut

\* The step thread t stands before, NoStep when its call has none left.
NoStep == [do |-> "return", lock |-> "", mode |-> ""]
StepOf(t) == IF th[t].busy /\ th[t].todo # << >> THEN Head(th[t].todo) ELSE NoStep

\* Mutex::lock, RwLock::read and RwLock::write return when the lock allows it.
CanLock(l, m) ==
    CASE l = "commit" -> lk.commit = 0
      [] l = "active" /\ m = "r" -> lk.activeW = 0
      [] l = "active" /\ m = "w" -> lk.activeW = 0 /\ lk.activeR = {}
      [] l = "repo" /\ m = "r" -> lk.repoW = 0
      [] l = "repo" /\ m = "w" -> lk.repoW = 0 /\ lk.repoR = {}

\* The locks once t holds (held = TRUE) or has dropped (held = FALSE) l in mode m.
Locked(t, l, m, held) ==
    CASE l = "commit" -> [lk EXCEPT !.commit = IF held THEN t ELSE 0]
      [] l = "active" /\ m = "r" -> [lk EXCEPT !.activeR = IF held THEN @ \cup {t} ELSE @ \ {t}]
      [] l = "active" /\ m = "w" -> [lk EXCEPT !.activeW = IF held THEN t ELSE 0]
      [] l = "repo" /\ m = "r" -> [lk EXCEPT !.repoR = IF held THEN @ \cup {t} ELSE @ \ {t}]
      [] l = "repo" /\ m = "w" -> [lk EXCEPT !.repoW = IF held THEN t ELSE 0]

\* A thread calls the manager or a transaction.
ThCall(t, op) ==
    /\ ~th[t].busy
    /\ th[t].calls < MaxThreadCalls
    /\ th' = [th EXCEPT ![t] = [busy |-> TRUE, todo |-> Script(op), calls |-> th[t].calls + 1]]
    /\ UNCHANGED << lk, main, branch, active, commitLock, txVars, cleanupVars, engVars, sqlVars, catVars, fnVars, opVars, optVars, sesVars >>

\* The thread gets the lock it asked for.
ThLock(t) ==
    /\ StepOf(t).do = "lock"
    /\ CanLock(StepOf(t).lock, StepOf(t).mode)
    /\ lk' = Locked(t, StepOf(t).lock, StepOf(t).mode, TRUE)
    /\ th' = [th EXCEPT ![t] = [@ EXCEPT !.todo = Tail(@)]]
    /\ UNCHANGED << main, branch, active, commitLock, txVars, cleanupVars, engVars, sqlVars, catVars, fnVars, opVars, optVars, sesVars >>

\* A guard is dropped.
ThUnlock(t) ==
    /\ StepOf(t).do = "unlock"
    /\ lk' = Locked(t, StepOf(t).lock, StepOf(t).mode, FALSE)
    /\ th' = [th EXCEPT ![t] = [@ EXCEPT !.todo = Tail(@)]]
    /\ UNCHANGED << main, branch, active, commitLock, txVars, cleanupVars, engVars, sqlVars, catVars, fnVars, opVars, optVars, sesVars >>

\* The call returns.
ThReturn(t) ==
    /\ th[t].busy
    /\ StepOf(t).do = "return"
    /\ th' = [th EXCEPT ![t] = [@ EXCEPT !.busy = FALSE]]
    /\ UNCHANGED << lk, main, branch, active, commitLock, txVars, cleanupVars, engVars, sqlVars, catVars, fnVars, opVars, optVars, sesVars >>

\* What a thread inside a call does next.
ThStep(t) == ThLock(t) \/ ThUnlock(t) \/ ThReturn(t)

NextLocks ==
    \/ \E t \in Threads, op \in ThreadOps : ThCall(t, op)
    \/ \E t \in Threads : ThLock(t)
    \/ \E t \in Threads : ThUnlock(t)
    \/ \E t \in Threads : ThReturn(t)

InitLocks == Init /\ main = InitialCommit

\* A thread that can take its next step takes it: threads are scheduled, and a
\* lock that stays free is given to a thread waiting for it.
SpecLocks == InitLocks /\ [][NextLocks]_vars /\ \A t \in Threads : WF_vars(ThStep(t))

\* ============================================================ statistics
\* TreeHandle::list_tables: the directories of the root tree whose name does
\* not start with '_' and is a valid TableName.
ListTables(tree) ==
    { n \in DOMAIN tree : Chars(n)[1] # "_" /\ TableNameNew(n) = "" }

\* The number of rows list_rows finds in the tables tbs of tree.
RECURSIVE TotalRows(_, _)
TotalRows(tree, tbs) ==
    IF tbs = {} THEN 0
    ELSE LET tb == CHOOSE x \in tbs : TRUE
         IN Cardinality({ k \in Keys : tree[tb][k] # NoRow }) + TotalRows(tree, tbs \ {tb})

\* GitRepository::stats(at): table_count and total_rows.
Stats(at) ==
    [table_count |-> Cardinality(ListTables(TreeAt(at))),
     total_rows |-> TotalRows(TreeAt(at), ListTables(TreeAt(at)))]

\* ===================================================== catalog migrations
\* Every session has a Catalog of its own over a clone of the repository, so
\* the write lock update_table takes is the session's; the calls it makes on
\* the repository are steps that sessions interleave.
UpdTable == "users"

\* The version of the schema stored for UpdTable at commit c, 0 when none is.
StoredVersion(c) == RepoReadRow(SCHEMA_DIR, SchemaKey(UpdTable), c).row.val

\* update_table up to the version test: head, read_row at head, the test.
UtRead(s, v) ==
    /\ upd[s].pc = "idle"
    /\ upd[s].calls < MaxUpdates
    /\ LET r == RepoReadRow(SCHEMA_DIR, SchemaKey(UpdTable), main)
           call == [pc |-> "idle", head |-> main, version |-> v, err |-> "",
                    calls |-> upd[s].calls + 1]
       IN upd' = [upd EXCEPT ![s] =
                    IF r.status # "Ok" THEN [call EXCEPT !.err = "Storage"]
                    ELSE IF r.row = NoRow THEN [call EXCEPT !.err = "TableNotFound"]
                    ELSE IF v <= r.row.val THEN [call EXCEPT !.err = "VersionMismatch"]
                    ELSE [call EXCEPT !.pc = "write"]]
    /\ UNCHANGED << main, branch, active, commitLock, txVars, cleanupVars, engVars, sqlVars, fnVars, opVars, optVars, sesVars, lockVars >>

\* update_table from there: upsert_row at the head it read, update_branch.
UtWrite(s) ==
    /\ upd[s].pc = "write"
    /\ LET r == RepoUpsertRow(SCHEMA_DIR, SchemaKey(UpdTable), RowNew(upd[s].version),
                              upd[s].head, NoTx)
       IN IF r.err # ""
          THEN /\ main' = main
               /\ upd' = [upd EXCEPT ![s] = [@ EXCEPT !.pc = "idle", !.err = "Storage"]]
          ELSE /\ main' = r.commit
               /\ upd' = [upd EXCEPT ![s] = [@ EXCEPT !.pc = "idle"]]
    /\ UNCHANGED << branch, active, commitLock, txVars, cleanupVars, engVars, sqlVars, fnVars, opVars, optVars, sesVars, lockVars >>

NextCatalog ==
    \/ \E s \in Sessions : \E v \in 1..MaxVersion : UtRead(s, v)
    \/ \E s \in Sessions : UtWrite(s)

\* Catalog::create_table of UpdTable, schema version 1, on a fresh repository.
InitCatalog ==
    /\ main = CatalogCreateTable(UpdTable, InitialCommit).commit
    /\ InitRest
    /\ fnIn = NoInput
    /\ fnOut = NoOutput
    /\ InitNoPlan

SpecCatalog == InitCatalog /\ [][NextCatalog]_vars

\* ============================================ names, row blobs and scans
\* The constructors of names, the (de)serialization of rows and the listing
\* of a table tree, each applied to an input drawn from a bounded set.

\* ------------------------------------------------------------------ names
NameAlphabet == {"a", "Z", "7", "_", "-", "."}

Repeat(c, n) == [i \in 1..n |-> c]

\* Names of up to MaxNameLen characters, the reserved names and their
\* neighbours, and names at the length limits.
NameInputs ==
    UNION { [1..n -> NameAlphabet] : n \in 0..MaxNameLen }
    \cup { Chars(r) : r \in RESERVED }
    \cup { Chars(SCHEMA_DIR), << "_", "G", "I", "T" >>, << "_", "g", "i", "t", "s" >> }
    \cup { Repeat("_", n) : n \in {64, 65, 128, 129} }

\* -------------------------------------------------------------- row blobs
\* RowJson's renamed fields.
MetaFields == {"_pk", "_version", "_created_at", "_updated_at"}

\* The column names rows are built from, in the order of a BTreeMap.
ColumnSeq == << "_created_at", "_pk", "_updated_at", "_version", "name" >>
ColumnVals == 1..(MaxVal + 1)

\* Row.data for a choice a of the columns' values, 0 for a column left out.
DataOf(a) ==
    SelectSeq([i \in 1..Len(ColumnSeq) |-> [name |-> ColumnSeq[i], value |-> a[i]]],
              LAMBDA m : m.value # 0)

RowInputs ==
    { [key |-> k, version |-> v, created_at |-> 1, updated_at |-> u, data |-> DataOf(a)] :
        k \in Keys, v \in 1..2, u \in 1..2,
        a \in [1..Len(ColumnSeq) -> {0} \cup ColumnVals] }

\* serialize_row: the members of the JSON object, RowJson's fields in the
\* order of their declaration, data flattened after them.
SerializeRow(row) ==
    << [name |-> "_pk", value |-> row.key],
       [name |-> "_version", value |-> row.version],
       [name |-> "_created_at", value |-> row.created_at],
       [name |-> "_updated_at", value |-> row.updated_at] >> \o row.data

\* The map visitor serde derives for RowJson: a member named as a field fills
\* it, an error when it is filled already; any other member goes to data.
RECURSIVE VisitMap(_, _)
VisitMap(ms, acc) ==
    IF ms = << >> THEN acc
    ELSE LET m == Head(ms)
         IN IF m.name \in MetaFields
            THEN IF m.name \in acc.seen THEN [acc EXCEPT !.err = "duplicate field"]
                 ELSE VisitMap(Tail(ms), [acc EXCEPT !.seen = @ \cup {m.name},
                                                     !.meta = [@ EXCEPT ![m.name] = m.value]])
            ELSE VisitMap(Tail(ms), [acc EXCEPT !.data = Append(@, m)])

\* deserialize_row: [err, row].
DeserializeRow(bytes, expected_key) ==
    LET json == VisitMap(bytes, [seen |-> {}, meta |-> [f \in MetaFields |-> 0],
                                 data |-> << >>, err |-> ""])
    IN IF json.err # "" THEN [err |-> json.err, row |-> NoRowValue]
       ELSE IF json.seen # MetaFields THEN [err |-> "missing field", row |-> NoRowValue]
       ELSE IF json.meta["_pk"] # expected_key THEN [err |-> "CorruptedData", row |-> NoRowValue]
       ELSE [err |-> "",
             row |-> [key |-> expected_key, version |-> json.meta["_version"],
                      created_at |-> json.meta["_created_at"],
                      updated_at |-> json.meta["_updated_at"], data |-> json.data]]

\* ------------------------------------------------------------------ scans
ScanAlphabet == {"a", "0", "_", "-"}

\* The valid row keys of one or two characters.
ScanKeyPool ==
    { k \in UNION { [1..n -> ScanAlphabet] : n \in 1..2 } : RowKeyValidate(k) = "" }

\* The sets of up to MaxScanKeys keys a table may hold.
ScanInputs == { { f[i] : i \in 1..MaxScanKeys } : f \in [1..MaxScanKeys -> ScanKeyPool] }

\* Byte order of two strings (memcmp, the shorter first when it is a prefix).
RECURSIVE BytesLess(_, _)
BytesLess(x, y) ==
    IF x = << >> THEN y # << >>
    ELSE IF y = << >> THEN FALSE
    ELSE IF Code(Head(x)) # Code(Head(y)) THEN Code(Head(x)) < Code(Head(y))
    ELSE BytesLess(Tail(x), Tail(y))

JsonSuffix == << ".", "j", "s", "o", "n" >>

\* The entries of a table tree that holds the rows of keys ks: the blobs
\* <key>.json, in the order of their names.
RECURSIVE TableTree(_)
TableTree(ks) ==
    IF ks = {} THEN << >>
    ELSE LET first == CHOOSE k \in ks :
                        \A o \in ks \ {k} : BytesLess(k \o JsonSuffix, o \o JsonSuffix)
         IN << first \o JsonSuffix >> \o TableTree(ks \ {first})

\* str::strip_suffix(".json"): the name without it, << >> when it has none.
StripSuffix(name) ==
    IF Len(name) >= Len(JsonSuffix)
       /\ SubSeq(name, Len(name) - Len(JsonSuffix) + 1, Len(name)) = JsonSuffix
    THEN SubSeq(name, 1, Len(name) - Len(JsonSuffix))
    ELSE << >>

\* list_rows: the keys of the entries, in the order of the tree.
ListRows(tree) ==
    LET keys == [i \in 1..Len(tree) |-> StripSuffix(tree[i])]
    IN SelectSeq(keys, LAMBDA k : RowKeyValidate(k) = "")

\* scan_table: a row for each key of list_rows, in that order.
ScanTable(ks) == ListRows(TableTree(ks))

\* ---------------------------------------------------------------- actions
FnInputs ==
    { [NoInput EXCEPT !.kind = "name", !.name = n] : n \in NameInputs }
    \cup { [NoInput EXCEPT !.kind = "row", !.row = r] : r \in RowInputs }
    \cup { [NoInput EXCEPT !.kind = "scan", !.keys = ks] : ks \in ScanInputs }

CallTableNameNew ==
    /\ fnIn.kind = "name"
    /\ "table" \notin fnOut.done
    /\ fnOut' = [fnOut EXCEPT !.done = @ \cup {"table"}, !.table = TableNameValidate(fnIn.name)]
    /\ UNCHANGED << main, branch, active, commitLock, txVars, cleanupVars, engVars, sqlVars, catVars, opVars, optVars, sesVars, lockVars, fnIn >>

CallRowKeyNew ==
    /\ fnIn.kind = "name"
    /\ "key" \notin fnOut.done
    /\ fnOut' = [fnOut EXCEPT !.done = @ \cup {"key"}, !.key = RowKeyValidate(fnIn.name)]
    /\ UNCHANGED << main, branch, active, commitLock, txVars, cleanupVars, engVars, sqlVars, catVars, opVars, optVars, sesVars, lockVars, fnIn >>

\* deserialize_row(serialize_row(row), row.key).
CallRoundTrip ==
    /\ fnIn.kind = "row"
    /\ "row" \notin fnOut.done
    /\ LET r == DeserializeRow(SerializeRow(fnIn.row), fnIn.row.key)
       IN fnOut' = [fnOut EXCEPT !.done = @ \cup {"row"}, !.row = r.row, !.err = r.err]
    /\ UNCHANGED << main, branch, active, commitLock, txVars, cleanupVars, engVars, sqlVars, catVars, opVars, optVars, sesVars, lockVars, fnIn >>

CallScanTable ==
    /\ fnIn.kind = "scan"
    /\ "scan" \notin fnOut.done
    /\ fnOut' = [fnOut EXCEPT !.done = @ \cup {"scan"}, !.scan = ScanTable(fnIn.keys)]
    /\ UNCHANGED << main, branch, active, commitLock, txVars, cleanupVars, engVars, sqlVars, catVars, opVars, optVars, sesVars, lockVars, fnIn >>

NextFn ==
    \/ CallTableNameNew
    \/ CallRowKeyNew
    \/ CallRoundTrip
    \/ CallScanTable

InitFn ==
    /\ main = InitialCommit
    /\ InitRest
    /\ fnIn \in FnInputs
    /\ fnOut = NoOutput
    /\ InitNoPlan

SpecFn == InitFn /\ [][NextFn]_vars

\* ===================================================== query operators
\* The pull-based operators of executor/operators.rs, as a pipeline: a Scan
\* over plan.rows and, above it, the operators plan.stages[1], [2], ..., the
\* last being the one the caller pulls from. ops[1] holds the fields of the
\* Scan, ops[i + 1] those of plan.stages[i].

\* ----------------------------------------------------------------- values
\* A serde_json::Value of a column, or the column's absence from the row.
Absent == [kind |-> "absent", n |-> 0]
Null == [kind |-> "null", n |-> 0]
Num(n) == [kind |-> "num", n |-> n]
Str(n) == [kind |-> "str", n |-> n]

Columns == {"id", "v"}

\* A row without columns.
NoRowMap == [c \in Columns |-> Absent]

\* compare_json_values: the std::cmp::Ordering.
CompareJsonValues(a, b) ==
    IF a.kind = "absent" /\ b.kind = "absent" THEN "Equal"
    ELSE IF a.kind = "absent" THEN "Less"
    ELSE IF b.kind = "absent" THEN "Greater"
    ELSE IF a.kind = "null" /\ b.kind = "null" THEN "Equal"
    ELSE IF a.kind = "null" THEN "Less"
    ELSE IF b.kind = "null" THEN "Greater"
    ELSE IF a.kind = b.kind /\ a.kind \in {"num", "str", "bool"}
         THEN (IF a.n < b.n THEN "Less" ELSE IF a.n > b.n THEN "Greater" ELSE "Equal")
    ELSE "Equal"

\* Ordering::reverse.
Reverse(o) == IF o = "Less" THEN "Greater" ELSE IF o = "Greater" THEN "Less" ELSE o

\* eval::values_equal.
ValuesEqual(a, b) == a.kind = b.kind /\ a.kind \in {"null", "bool", "num", "str"} /\ a.n = b.n

\* matches_where for the predicate `column = lit`: [err, ok].
MatchesWhere(sg, row) ==
    IF row[sg.column].kind = "absent" THEN [err |-> "ColumnNotFound", ok |-> FALSE]
    ELSE [err |-> "", ok |-> ValuesEqual(row[sg.column], sg.lit)]

\* The closure given to sort_by for ORDER BY sg.column.
OrderCmp(sg, a, b) ==
    IF sg.ascending THEN CompareJsonValues(a[sg.column], b[sg.column])
    ELSE Reverse(CompareJsonValues(a[sg.column], b[sg.column]))

\* slice::sort_by on a short slice: a stable insertion sort, each element
\* moved left past the elements it compares Less than.
RECURSIVE InsertTail(_, _, _)
InsertTail(sorted, x, sg) ==
    IF sorted = << >> THEN << x >>
    ELSE IF OrderCmp(sg, x, sorted[Len(sorted)]) = "Less"
         THEN Append(InsertTail(SubSeq(sorted, 1, Len(sorted) - 1), x, sg), sorted[Len(sorted)])
    ELSE Append(sorted, x)

RECURSIVE SortBy(_, _)
SortBy(rows, sg) ==
    IF rows = << >> THEN << >>
    ELSE InsertTail(SortBy(SubSeq(rows, 1, Len(rows) - 1), sg), rows[Len(rows)], sg)

\* -------------------------------------------------------------- pipelines
NoStage == [kind |-> "none", column |-> "id", lit |-> Null, cols |-> {}, ascending |-> TRUE,
            limit |-> 0, offset |-> 0]

\* Operator::new of each operator: its fields as constructed.
NewOp == [position |-> 0, sorted |-> << >>, materialized |-> FALSE, current |-> 0, skipped |-> 0]

NewOps(pl) == [i \in 1..(Len(pl.stages) + 1) |-> NewOp]

RowPool ==
    { [id |-> Num(1), v |-> x] : x \in {Absent, Num(1), Num(2), Str(1)} }

StagePool ==
    { [NoStage EXCEPT !.kind = "Filter", !.column = "v", !.lit = Num(1)] }
    \cup { [NoStage EXCEPT !.kind = "Project", !.cols = {"v"}] }
    \cup { [NoStage EXCEPT !.kind = "Sort", !.column = "v", !.ascending = asc] : asc \in BOOLEAN }
    \cup { [NoStage EXCEPT !.kind = "Limit", !.limit = l, !.offset = o] :
              l \in 0..MaxLimit, o \in 0..(MaxLimit - 1) }

Plans ==
    { [rows |-> rs, stages |-> sgs] :
        rs \in UNION { [1..n -> RowPool] : n \in 0..MaxRows },
        sgs \in UNION { [1..n -> StagePool] : n \in 0..MaxStages } }

\* What next_row returns: the operators' fields afterwards, Some(row) or none,
\* or an error.
Ret(st, some, row, err) == [st |-> st, some |-> some, row |-> row, err |-> err]

RECURSIVE NextRow(_, _)

\* ScanOperator::next_row.
ScanNext(st) ==
    IF st[1].position < Len(plan.rows)
    THEN Ret([st EXCEPT ![1].position = @ + 1], TRUE, plan.rows[st[1].position + 1], "")
    ELSE Ret(st, FALSE, NoRowMap, "")

\* FilterOperator::next_row.
RECURSIVE FilterNext(_, _)
FilterNext(i, st) ==
    LET r == NextRow(i - 1, st)
    IN IF r.err # "" \/ ~r.some THEN r
       ELSE LET m == MatchesWhere(plan.stages[i], r.row)
            IN IF m.err # "" THEN Ret(r.st, FALSE, NoRowMap, m.err)
               ELSE IF m.ok THEN r
               ELSE FilterNext(i, r.st)

\* ProjectOperator::next_row, for columns given by name.
ProjectNext(i, st) ==
    LET r == NextRow(i - 1, st)
    IN IF r.err # "" \/ ~r.some THEN r
       ELSE Ret(r.st, TRUE,
                [c \in Columns |-> IF c \in plan.stages[i].cols THEN r.row[c] ELSE Absent], "")

\* The loop of SortOperator::materialize: [st, rows, err].
RECURSIVE DrainSource(_, _, _)
DrainSource(i, st, acc) ==
    LET r == NextRow(i, st)
    IN IF r.err # "" THEN [st |-> r.st, rows |-> acc, err |-> r.err]
       ELSE IF ~r.some THEN [st |-> r.st, rows |-> acc, err |-> ""]
       ELSE DrainSource(i, r.st, Append(acc, r.row))

\* SortOperator::materialize: [st, err].
Materialize(i, st) ==
    IF st[i + 1].materialized THEN [st |-> st, err |-> ""]
    ELSE LET d == DrainSource(i - 1, st, << >>)
         IN IF d.err # "" THEN [st |-> d.st, err |-> d.err]
            ELSE [st |-> [d.st EXCEPT ![i + 1].sorted = SortBy(d.rows, plan.stages[i]),
                                      ![i + 1].materialized = TRUE],
                  err |-> ""]

\* SortOperator::next_row.
SortNext(i, st) ==
    LET m == Materialize(i, st)
    IN IF m.err # "" THEN Ret(m.st, FALSE, NoRowMap, m.err)
       ELSE IF m.st[i + 1].position < Len(m.st[i + 1].sorted)
            THEN Ret([m.st EXCEPT ![i + 1].position = @ + 1], TRUE,
                     m.st[i + 1].sorted[m.st[i + 1].position + 1], "")
       ELSE Ret(m.st, FALSE, NoRowMap, "")

\* The first loop of LimitOperator::next_row: [st, none, err], none when the
\* source ran out while rows were skipped.
RECURSIVE LimitSkip(_, _)
LimitSkip(i, st) ==
    IF st[i + 1].skipped < plan.stages[i].offset
    THEN LET r == NextRow(i - 1, st)
         IN IF r.err # "" THEN [st |-> r.st, none |-> FALSE, err |-> r.err]
            ELSE IF ~r.some THEN [st |-> r.st, none |-> TRUE, err |-> ""]
            ELSE LimitSkip(i, [r.st EXCEPT ![i + 1].skipped = @ + 1])
    ELSE [st |-> st, none |-> FALSE, err |-> ""]

\* A faulty variant: the limit is not tested.
LimitNext_Unlimited(i, st) ==
    LET k == LimitSkip(i, st)
    IN IF k.err # "" \/ k.none THEN Ret(k.st, FALSE, NoRowMap, k.err)
       ELSE NextRow(i - 1, k.st)

\* LimitOperator::next_row.
LimitNext(i, st) ==
    LET k == LimitSkip(i, st)
    IN IF k.err # "" \/ k.none THEN Ret(k.st, FALSE, NoRowMap, k.err)
       ELSE IF k.st[i + 1].current < plan.stages[i].limit
            THEN LET r == NextRow(i - 1, k.st)
                 IN IF r.err = "" /\ r.some
                    THEN Ret([r.st EXCEPT ![i + 1].current = @ + 1], TRUE, r.row, "")
                    ELSE r
       ELSE Ret(k.st, FALSE, NoRowMap, "")

\* Operator::next_row of operator i of the pipeline, 0 being the Scan.
NextRow(i, st) ==
    IF i = 0 THEN ScanNext(st)
    ELSE CASE plan.stages[i].kind = "Filter" -> FilterNext(i, st)
           [] plan.stages[i].kind = "Project" -> ProjectNext(i, st)
           [] plan.stages[i].kind = "Sort" -> SortNext(i, st)
           [] plan.stages[i].kind = "Limit" -> LimitNext(i, st)

\* A faulty variant: SortOperator::reset keeps its sorted rows and position.
RECURSIVE ResetOp_SortKept(_, _)
ResetOp_SortKept(i, st) ==
    IF i = 0 THEN [st EXCEPT ![1].position = 0]
    ELSE CASE plan.stages[i].kind \in {"Filter", "Project", "Sort"} -> ResetOp_SortKept(i - 1, st)
           [] plan.stages[i].kind = "Limit" ->
                [ResetOp_SortKept(i - 1, st) EXCEPT ![i + 1].current = 0, ![i + 1].skipped = 0]

\* Operator::reset of operator i: the operators' fields afterwards.
RECURSIVE ResetOp(_, _)
ResetOp(i, st) ==
    IF i = 0 THEN [st EXCEPT ![1].position = 0]
    ELSE CASE plan.stages[i].kind \in {"Filter", "Project"} -> ResetOp(i - 1, st)
           [] plan.stages[i].kind = "Sort" ->
                [ResetOp(i - 1, st) EXCEPT ![i + 1].sorted = << >>,
                                           ![i + 1].materialized = FALSE,
                                           ![i + 1].position = 0]
           [] plan.stages[i].kind = "Limit" ->
                [ResetOp(i - 1, st) EXCEPT ![i + 1].current = 0, ![i + 1].skipped = 0]

\* `while let Some(row) = op.next_row()?` on operators in the state st:
\* [rows, err].
Drain(st) ==
    LET d == DrainSource(Len(plan.stages), st, << >>)
    IN [rows |-> d.rows, err |-> d.err]

\* ---------------------------------------------------------------- actions
\* The caller pulls a row from the top operator.
OpNext ==
    /\ run.calls < MaxCalls
    /\ run.err = ""
    /\ LET r == NextRow(Len(plan.stages), ops)
       IN /\ ops' = r.st
          /\ run' = [run EXCEPT !.calls = @ + 1,
                                !.err = r.err,
                                !.ended = @ \/ ~r.some,
                                !.out = IF r.some /\ ~run.ended THEN Append(@, r.row) ELSE @,
                                !.late = IF r.some /\ run.ended THEN Append(@, r.row) ELSE @]
    /\ UNCHANGED << main, branch, active, commitLock, txVars, cleanupVars, engVars, sqlVars, catVars, fnVars, optVars, sesVars, lockVars, plan >>

\* The caller resets the top operator.
OpReset ==
    /\ run.resets < MaxResets
    /\ ops' = ResetOp(Len(plan.stages), ops)
    /\ run' = [NoRun EXCEPT !.resets = run.resets + 1, !.pulled = run.calls]
    /\ UNCHANGED << main, branch, active, commitLock, txVars, cleanupVars, engVars, sqlVars, catVars, fnVars, optVars, sesVars, lockVars, plan >>

NextOp ==
    \/ OpNext
    \/ OpReset

InitOp ==
    /\ main = InitialCommit
    /\ InitRest
    /\ fnIn = NoInput
    /\ fnOut = NoOutput
    /\ plan \in Plans
    /\ ops = NewOps(plan)
    /\ run = NoRun
    /\ opt = NoOpt

SpecOp == InitOp /\ [][NextOp]_vars

\* ======================================================= the optimizer
\* Logical plans whose operators have one input: plan.nodes from the root
\* down, over the leaf plan.leaf.
ScanLeaf == [kind |-> "Scan", columns |-> ""]

NodePool ==
    { [kind |-> "Filter", pred |-> << e >>, columns |-> ""] : e \in {"true", "false", "p"} }
    \cup { [kind |-> "Project", pred |-> << >>, columns |-> c] : c \in {"a", "b"} }
    \cup { [kind |-> k, pred |-> << >>, columns |-> ""] : k \in {"Sort", "Limit"} }

LogicalPlans ==
    { [nodes |-> ns, leaf |-> ScanLeaf] : ns \in UNION { [1..n -> NodePool] : n \in 0..MaxPlanDepth } }

\* The input of the root of p.
InputOf(p) == [p EXCEPT !.nodes = Tail(@)]

\* The plan with root n over the input p.
Over(n, p) == [p EXCEPT !.nodes = << n >> \o @]

\* LogicalPlan::output_columns.
RECURSIVE OutputColumns(_)
OutputColumns(p) ==
    IF p.nodes = << >> THEN p.leaf.columns
    ELSE IF Head(p.nodes).kind = "Project" THEN Head(p.nodes).columns
    ELSE OutputColumns(InputOf(p))

IsNode(p, kind) == p.nodes # << >> /\ Head(p.nodes).kind = kind

None == [some |-> FALSE, plan |-> [nodes |-> << >>, leaf |-> ScanLeaf]]
Some(p) == [some |-> TRUE, plan |-> p]

\* ConstantFolding::apply.
ConstantFolding(p) ==
    IF IsNode(p, "Filter")
    THEN IF Head(p.nodes).pred = << "true" >> THEN Some(InputOf(p))
         ELSE IF Head(p.nodes).pred = << "false" >>
              THEN Some([nodes |-> << >>,
                         leaf |-> [kind |-> "Empty", columns |-> OutputColumns(InputOf(p))]])
         ELSE None
    ELSE None

\* PredicatePushdown::apply; a conjunction is the sequence of its operands.
PredicatePushdown(p) ==
    IF IsNode(p, "Filter")
    THEN IF IsNode(InputOf(p), "Project")
         THEN Some(Over(p.nodes[2], Over(p.nodes[1], InputOf(InputOf(p)))))
         ELSE IF IsNode(InputOf(p), "Filter")
              THEN Some(Over([p.nodes[1] EXCEPT !.pred = @ \o p.nodes[2].pred],
                             InputOf(InputOf(p))))
         ELSE None
    ELSE None

\* ProjectionPushdown::apply.
ProjectionPushdown(p) ==
    IF IsNode(p, "Project") /\ IsNode(InputOf(p), "Project")
    THEN Some(Over(p.nodes[1], InputOf(InputOf(p))))
    ELSE None

\* LimitPushdown::apply.
LimitPushdown(p) ==
    IF IsNode(p, "Limit") /\ IsNode(InputOf(p), "Project")
    THEN Some(Over(p.nodes[2], Over(p.nodes[1], InputOf(InputOf(p)))))
    ELSE None

\* Optimizer::new: the rules, in order, and the cap on the passes.
Rules == << "ConstantFolding", "PredicatePushdown", "ProjectionPushdown", "LimitPushdown" >>
max_iterations == 10

Apply(rule, p) ==
    CASE rule = "ConstantFolding" -> ConstantFolding(p)
      [] rule = "PredicatePushdown" -> PredicatePushdown(p)
      [] rule = "ProjectionPushdown" -> ProjectionPushdown(p)
      [] rule = "LimitPushdown" -> LimitPushdown(p)

\* The loop `for rule in &self.rules`, from rule k on: [plan, changed].
RECURSIVE ApplyRules(_, _, _)
ApplyRules(k, p, changed) ==
    IF k > Len(Rules) THEN [plan |-> p, changed |-> changed]
    ELSE IF Apply(Rules[k], p).some THEN ApplyRules(k + 1, Apply(Rules[k], p).plan, TRUE)
    ELSE ApplyRules(k + 1, p, changed)

\* Optimizer::apply_rules_recursive: [plan, changed].
RECURSIVE ApplyRulesRecursive(_)
ApplyRulesRecursive(p) ==
    LET here == ApplyRules(1, p, FALSE)
    IN IF here.plan.nodes = << >> THEN here
       ELSE LET below == ApplyRulesRecursive(InputOf(here.plan))
            IN [plan |-> Over(Head(here.plan.nodes), below.plan),
                changed |-> here.changed \/ below.changed]

\* One iteration of the loop of Optimizer::optimize.
OptimizePass ==
    /\ ~opt.done
    /\ opt.iter < max_iterations
    /\ LET r == ApplyRulesRecursive(opt.current)
       IN opt' = IF ~r.changed THEN [opt EXCEPT !.done = TRUE]
                 ELSE [current |-> r.plan, iter |-> opt.iter + 1,
                       done |-> (opt.iter + 1 = max_iterations)]
    /\ UNCHANGED << main, branch, active, commitLock, txVars, cleanupVars, engVars, sqlVars, catVars, fnVars, opVars, sesVars, lockVars >>

NextOpt == OptimizePass

InitOpt ==
    /\ main = InitialCommit
    /\ InitRest
    /\ fnIn = NoInput
    /\ fnOut = NoOutput
    /\ plan = NoPlan
    /\ ops = << >>
    /\ run = NoRun
    /\ opt \in { [NoOpt EXCEPT !.current = p] : p \in LogicalPlans }

SpecOpt == InitOpt /\ [][NextOpt]_vars

\* ============================================================= properties
\* The commits made by transaction t that main holds.
CommitsOf(t, c) == { i \in 1..Len(c) : c[i].msg.tx = t }

C2_ConflictNamesAPath ==
    \A t \in TxIds :
        result[t] = "Conflict" =>
            /\ conflicts[t] # {}
            /\ LET main_head == IF ff[t] = "ConcurrentModification" THEN retryHead[t] ELSE mainHead[t]
               IN DiffCommits(base[t], current[t]) \cap DiffCommits(base[t], main_head) # {}

\* C3: a commit() that finds main advanced past the base while no path the
\* transaction changed was changed on main returns Committed, main holds the
\* transaction's writes and the tx-branch is deleted.  (The tx-branch was there
\* for the whole call: no cleanup ran.)
C3_DisjointCommitSucceeds ==
    \A t \in TxIds :
        ( /\ pc[t] = "done"
          /\ result[t] \in {"Committed", "Conflict", "Storage"}
          /\ cleanups = 0
          /\ mainHead[t] # base[t]
          /\ DiffCommits(base[t], current[t]) \cap DiffCommits(base[t], mainHead[t]) = {} )
        => /\ result[t] = "Committed"
           /\ IsAncestor(current[t], main)
           /\ t \notin DOMAIN branch

C6_CleanupSparesActive ==
    [][ \A b \in TxIds :
            ( /\ cpc = "loop"
              /\ b \in cTodo
              /\ b \notin cTodo'
              /\ b \in DOMAIN branch
              /\ b \notin DOMAIN branch' )
            => b \notin active
      ]_vars

\* C7: whatever cleanup_abandoned does concurrently, a transaction that begin()
\* returned as Active still has its tx-branch, pointing at its current commit.
C7_ActiveKeepsBranch ==
    \A t \in TxIds :
        pc[t] = "active" => (t \in DOMAIN branch /\ branch[t] = current[t])

C9_FinishedIsUntracked ==
    [][ \A t \in TxIds :
            /\ (pc[t] \in {"m_mark", "r_mark"} /\ pc'[t] = "done") =>
                  /\ t \in active
                  /\ active' = active \ {t}
                  /\ Cardinality(active') = Cardinality(active) - 1
            /\ (pc'[t] = "done" /\ via'[t] /\ result'[t] \in {"Committed", "Aborted"}) =>
                  /\ t \notin active'
                  /\ t \notin DOMAIN branch'
      ]_vars

\* C9 happens: one transaction finished by commit_transaction, another by
\* rollback_transaction.
C9_Witness ==
    \E t, u \in TxIds :
        /\ pc[t] = "done" /\ via[t] /\ result[t] = "Committed"
        /\ pc[u] = "done" /\ via[u] /\ result[u] = "Aborted"

\* C10: main changes only in the step of a successful fast-forward of a commit;
\* writes, reads and rollback leave it alone, and main holds no commit made by a
\* transaction that has not committed, one rolled back in particular.
C10_OnlyCommitMovesMain ==
    [][ /\ (main' # main) => \E t \in TxIds : pc[t] = "c_ff" /\ ff[t] # "Ok" /\ ff'[t] = "Ok"
        /\ \A t \in TxIds :
              /\ (result'[t] # "Committed" /\ ff'[t] # "Ok") => CommitsOf(t, main') = {}
              /\ (result[t] = "none" /\ result'[t] = "Aborted") => main' = main
      ]_vars

\* C10 happens: a transaction that wrote a row was rolled back;
\* main is where it was when the transaction began.
C10_Witness ==
    \E t \in TxIds :
        /\ result[t] = "Aborted"
        /\ current[t] # base[t]
        /\ DiffCommits(base[t], current[t]) # {}
        /\ main = base[t]

\* C12: A and B begin at the same base and both change the same row; A has
\* committed.  When B's commit returns, it is Conflict, its paths are exactly
\* the paths both changed, main still holds A's rows and neither tx-branch exists.
C12_SameRowConflict ==
    \A a, b \in TxIds :
        ( /\ a # b
          /\ base[a] = base[b]
          /\ DiffCommits(base[a], current[a]) \cap DiffCommits(base[b], current[b]) # {}
          /\ result[a] = "Committed"
          /\ pc[b] = "done"
          /\ result[b] \in {"Committed", "Conflict", "Storage"} )
        => /\ result[b] = "Conflict"
           /\ conflicts[b] = DiffCommits(base[a], current[a]) \cap DiffCommits(base[b], current[b])
           /\ \A p \in conflicts[b] :
                  BlobAt(TreeAt(main), p[1], p[2]) = BlobAt(TreeAt(current[a]), p[1], p[2])
           /\ a \notin DOMAIN branch
           /\ b \notin DOMAIN branch

\* C13: a transaction that begins when main stands at the commit C1 a
\* successful commit of T1 put it at has C1 as its base; and what it reads,
\* before any write of its own, is what C1 holds, T1's writes included.
C13_BeginSeesCommitted ==
    [][ \A u \in TxIds :
            /\ (pc[u] = "idle" /\ pc'[u] # "idle") =>
                  /\ base'[u] = main
                  /\ current'[u] = main
                  /\ \A t \in TxIds :
                        (result[t] = "Committed" /\ main = current[t]) => base'[u] = current[t]
            /\ ( /\ pc[u] = "active"
                 /\ lastRead'[u] # lastRead[u]
                 /\ lastRead'[u].status # "Unread" )
               => \A t \in TxIds \ {u} :
                     ( /\ result[t] = "Committed"
                       /\ base[u] = current[t]
                       /\ current[u] = base[u] )
                     => /\ lastRead'[u].status = RepoReadRow(lastRead'[u].table, lastRead'[u].key, current[t]).status
                        /\ lastRead'[u].row = RepoReadRow(lastRead'[u].table, lastRead'[u].key, current[t]).row
      ]_vars

\* C13 happens: a transaction begun at the commit of a committed transaction
\* has read a row that transaction inserted.
C13_Witness ==
    \E t, u \in TxIds :
        /\ t # u
        /\ result[t] = "Committed"
        /\ base[u] = current[t]
        /\ pc[u] = "active"
        /\ lastRead[u].status = "Ok"
        /\ lastRead[u].row # NoRow
        /\ BlobAt(TreeAt(base[t]), lastRead[u].table, lastRead[u].key) = NoRow
        /\ BlobAt(TreeAt(current[t]), lastRead[u].table, lastRead[u].key) = lastRead[u].row

\* C14: the commit critical section (the read of main's head, the conflict
\* detection, the compare-and-swap of main) holds at most one transaction at a
\* time, however the commits were started.
C14_OneCommitAtATime ==
    Cardinality({ t \in TxIds : pc[t] \in {"c_head", "c_detect", "c_ff"} }) <= 1

\* C15: a write of an Active transaction that returns an error leaves the
\* transaction's current commit and its tx-branch as they were.
C15_FailedWriteChangesNothing ==
    [][ \A t \in TxIds :
            ( /\ pc[t] = "active"
              /\ pc'[t] = "active"
              /\ writeErr'[t] # ""
              /\ (writeErr'[t] # writeErr[t] \/ current'[t] # current[t]) )
            => /\ current'[t] = current[t]
               /\ branch' = branch
      ]_vars

\* The chain c never lowers the version of a stored row from a commit to its
\* child, and raises it when the child wrote the row.
VersionsGrow(c) ==
    \A i \in 1..(Len(c) - 1), tb \in Tables, k \in Keys :
        LET old == BlobAt(c[i].tree, tb, k)
            new == BlobAt(c[i+1].tree, tb, k)
        IN (old # NoRow /\ new # NoRow) =>
              /\ old.version <= new.version
              /\ (c[i+1].msg.table = tb /\ c[i+1].msg.key = k) => old.version < new.version

\* C19: along every chain of commits, main's and each transaction's, the version
\* of a stored row never decreases and strictly increases with every
\* replacement of the row.
C19_VersionsGrow ==
    /\ VersionsGrow(main)
    /\ \A t \in TxIds : VersionsGrow(current[t])

\* The parents of commit c: the chain below its last commit.
Parent(c) == SubSeq(c, 1, Len(c) - 1)

\* C17: an engine mutation (create_table, drop_table, insert_row, update_row,
\* upsert_row, delete_row) changes the target of no branch: main and every
\* tx-branch are as before the call, and the commit it returns has as its sole
\* parent the commit `at` it was given, one the caller held before the call.
C17_MutationsMoveNoBranch ==
    [][ /\ eCommit' # eCommit =>
              /\ main' = main
              /\ branch' = branch
              /\ eCall'.op = "mutate" /\ eCall'.err = ""
              /\ Parent(eCommit') \in KnownCommits
        /\ \A at \in KnownCommits : \A res \in EngineMutations(at) :
              EngMutate(at, res) =>
                  /\ main' = main /\ branch' = branch
                  /\ res.err = "" => eCommit' = res.commit /\ Parent(eCommit') = at
      ]_vars

\* A mutation at the tx-branch's commit has returned a new commit; main and the
\* tx-branch still point where they did.
C17_Witness ==
    /\ eCall.op = "mutate" /\ eCall.err = ""
    /\ EngTx \in DOMAIN branch
    /\ Parent(eCommit) = branch[EngTx]
    /\ branch[EngTx] # main
    /\ eCommit # main

\* C18: update_branch_if_unchanged(b, expected, new) on a branch that exists
\* sets it to `new` if and only if it points at `expected`, and otherwise fails
\* with ConcurrentModification and changes no ref; a call on a branch that does
\* not exist fails and changes no ref.  The comparison and the update are one
\* step: the target compared is the target replaced.
C18_CompareAndSwap ==
    [][ \A b \in Refs : \A expected \in KnownCommits :
            EngCompareAndSwap(b, expected) =>
                IF RefExists(b) /\ RefTarget(b) = expected
                THEN /\ eCall'.err = ""
                     /\ main' = (IF b = MainRef THEN eCommit ELSE main)
                     /\ branch' = (IF b = MainRef THEN branch ELSE [branch EXCEPT ![b] = eCommit])
                ELSE /\ eCall'.err = (IF RefExists(b) THEN "ConcurrentModification" ELSE "RefNotFound")
                     /\ main' = main
                     /\ branch' = branch
      ]_vars

\* A compare-and-swap of main has failed: main points at neither the expected
\* commit the caller held nor the new one.
C18_Witness ==
    /\ eCall.op = "update_branch_if_unchanged"
    /\ eCall.ref = MainRef
    /\ eCall.err = "ConcurrentModification"
    /\ main # eCommit
    /\ main # SetupCommit

\* C20: a successful write of an Active transaction leaves tx/<id> at the
\* transaction's current commit, and it moves tx/<id> from the previous
\* current commit: the branch pointed there when the write replaced it.
C20_WriteIsCompareAndSwap ==
    [][ \A t \in TxIds :
            (pc[t] = "active" /\ pc'[t] = "active" /\ current'[t] # current[t] /\ writeErr'[t] = "") =>
                /\ t \in DOMAIN branch /\ branch[t] = current[t]
                /\ t \in DOMAIN branch' /\ branch'[t] = current'[t]
      ]_vars

\* Since commit b was head, main has only gained commits that insert a row
\* into a table of the session (and at least one).
OnlyInsertsSince(b, c) ==
    /\ IsAncestor(b, c)
    /\ Len(c) > Len(b)
    /\ \A i \in (Len(b) + 1)..Len(c) : c[i].msg.op = "INSERT" /\ c[i].msg.table \in SqlNames

\* C11: BEGIN, an INSERT of a row into a table, ROLLBACK leaves no trace: when
\* ROLLBACK returns main is the head that BEGIN found, and a SELECT that
\* follows the ROLLBACK returns none of the rows inserted since BEGIN.
C11_RollbackLeavesNoTrace ==
    [][ /\ (nStmt' # nStmt /\ stmt'.op = "ROLLBACK" /\ stmt'.err = ""
               /\ OnlyInsertsSince(base[currentTx], main)) =>
                main' = base[currentTx]
        /\ (stmt.op = "ROLLBACK" /\ stmt.err = "" /\ nStmt' # nStmt /\ stmt'.op = "SELECT" /\ stmt'.err = "") =>
                \A p \in inTx : p[1] = selected'.table => p[2] \notin selected'.keys
      ]_vars

\* C16: a SQL statement that returns an error leaves main at the commit it
\* pointed at when the statement started.
C16_FailedStatementLeavesMain ==
    [][ (nStmt' # nStmt /\ stmt'.err # "") => main' = main ]_vars

\* C21: every tx-branch that exists points at its transaction's base commit or
\* at a descendant of it, and the base commit is the commit main pointed at
\* when the transaction began.
C21_BranchDescendsFromBase ==
    [][ /\ \A t \in TxIds : t \in DOMAIN branch' => IsAncestor(base'[t], branch'[t])
        /\ \A t \in TxIds : (pc[t] = "idle" /\ pc'[t] # "idle") => base'[t] = main
      ]_vars

\* A transaction has written: its tx-branch is ahead of its base, which is
\* neither the first commit nor where main points now.
C21_Witness ==
    \E t \in TxIds :
        /\ t \in DOMAIN branch
        /\ branch[t] # base[t]
        /\ base[t] # InitialCommit
        /\ main # base[t]

\* C22: once the repository is initialised, whatever the catalog, the SQL
\* executor and its transaction manager have done, branch main exists and
\* points at a commit that has the initial empty-tree commit as an ancestor.
C22_MainDescendsFromInitial ==
    /\ Len(main) >= 1
    /\ IsAncestor(InitialCommit, main)

\* Inside a transaction of the session, after the catalog and the executor
\* have moved main several times and the last statement dropped a table.
C22_Witness ==
    /\ currentTx # NoTx
    /\ stmt.op = "DROP TABLE" /\ stmt.err = ""
    /\ Len(main) >= 5

\* C23: with_transaction ends its transaction through the manager: by
\* commit_transaction when the callback returned Ok, by rollback_transaction
\* when it returned Err.  In the Err case the rollback succeeds (so the
\* callback's error is what is returned), no step of it moves main, and from
\* its return on the tx-branch does not exist and the id is not in the active
\* map.  In the Ok case a commit that succeeds leaves the transaction's
\* commits on main.
C23_WithTransaction ==
    [][ \A t \in TxIds :
            /\ (pc[t] = "active" /\ pc'[t] = "r_mark") =>
                  /\ main' = main
                  /\ result'[t] = "Aborted"
                  /\ t \notin DOMAIN branch'
            /\ (pc[t] = "r_mark" /\ pc'[t] = "done") =>
                  /\ main' = main
                  /\ result'[t] = "Aborted"
                  /\ t \notin DOMAIN branch'
                  /\ t \notin active'
            /\ (via'[t] /\ pc'[t] = "done" /\ result'[t] = "Aborted") =>
                  /\ t \notin DOMAIN branch'
                  /\ t \notin active'
            /\ (via'[t] /\ result[t] # "Committed" /\ result'[t] = "Committed") =>
                  IsAncestor(current[t], main')
      ]_vars

\* A callback wrote a row and then failed: its transaction was rolled back
\* through the manager, and main is where it was when the transaction began.
C23_Witness ==
    \E t \in TxIds :
        /\ via[t] /\ pc[t] = "done" /\ result[t] = "Aborted"
        /\ current[t] # base[t]
        /\ main = base[t]
        /\ Len(main) > Len(InitialCommit)

\* C24: a BEGIN issued while the session has an active transaction fails; it
\* creates no tx-branch and no entry of the active map and leaves the
\* transaction the session has Active.  The session has at most one Active
\* transaction at any time, the one in current_tx.
C24_NoNestedBegin ==
    [][ /\ (nStmt' # nStmt /\ stmt'.op = "BEGIN" /\ currentTx # NoTx) =>
              /\ stmt'.err # ""
              /\ branch' = branch
              /\ active' = active
              /\ currentTx' = currentTx
              /\ pc' = pc /\ pc[currentTx] = "active"
        /\ Cardinality({ t \in TxIds : pc'[t] = "active" }) <= 1
        /\ \A t \in TxIds : pc'[t] = "active" => currentTx' = t
      ]_vars

\* A BEGIN has just failed inside the session's transaction, which is still
\* Active with its tx-branch.
C24_Witness ==
    /\ stmt.op = "BEGIN" /\ stmt.err # ""
    /\ currentTx # NoTx
    /\ pc[currentTx] = "active"
    /\ currentTx \in DOMAIN branch
    /\ currentTx \in active

\* C25: an Active transaction dropped without commit or rollback leaves its
\* tx-branch in place, and a cleanup_abandoned call made after the drop deletes
\* that branch and counts it: when the call returns, no transaction that was
\* already dropped when it was called has a tx-branch, and the count returned
\* is at least their number.
C25_CleanupCollectsDropped ==
    [][ /\ \A t \in TxIds : (pc[t] = "active" /\ pc'[t] = "dropped") => branch' = branch
        /\ (cpc = "loop" /\ cpc' = "idle") =>
              /\ \A t \in cDropped : t \notin DOMAIN branch'
              /\ cleaned' >= Cardinality(cDropped)
      ]_vars

\* The row mutations whose precondition fails at commit `at` return the
\* matching error.
PreconditionErrors(at) ==
    \A tb \in Tables, k \in Keys, v \in Vals :
        TableExists(TreeAt(at), tb) =>
            /\ RowExists(TreeAt(at), tb, k) =>
                  RepoInsertRow(tb, k, RowNew(v), at, NoTx).err = "RowAlreadyExists"
            /\ ~RowExists(TreeAt(at), tb, k) =>
                  /\ RepoUpdateRow(tb, k, RowNew(v), at, NoTx).err = "RowNotFound"
                  /\ RepoDeleteRow(tb, k, at, NoTx).err = "RowNotFound"

\* C26: insert_row of a key present in the table at `at` fails with
\* RowAlreadyExists, update_row and delete_row of a key absent at `at` fail
\* with RowNotFound, for every commit the caller can hold; and a mutation that
\* returns an error has made no commit and moved no ref.
C26_FailedMutationMakesNoCommit ==
    [][ /\ \A at \in KnownCommits : PreconditionErrors(at)
        /\ \A at \in KnownCommits : \A res \in EngineMutations(at) :
              (EngMutate(at, res) /\ res.err # "") =>
                  /\ eCall'.err = res.err
                  /\ eCommit' = eCommit
                  /\ main' = main
                  /\ branch' = branch
      ]_vars

\* An insert_row has failed with RowAlreadyExists while the caller also holds
\* a commit in which the table has no row.
C26_Witness ==
    /\ eCall.op = "mutate" /\ eCall.err = "RowAlreadyExists"
    /\ \E at \in KnownCommits : \E tb \in Tables, k \in Keys : RowExists(TreeAt(at), tb, k)
    /\ \E at \in KnownCommits : \E tb \in Tables :
            TableExists(TreeAt(at), tb) /\ \A k \in Keys : ~RowExists(TreeAt(at), tb, k)

\* C27: update_table succeeds only with a schema version above the one it
\* read, a failing update_table leaves main where it was, and every
\* successful update_table leaves on main a schema version above the one main
\* held before it, whichever session issued it.
C27_SchemaVersionIncreases ==
    [][ \A s \in Sessions :
          /\ \A v \in 1..MaxVersion :
                UtRead(s, v) =>
                    /\ main' = main
                    /\ upd'[s].pc = "write" => v > StoredVersion(main)
          /\ UtWrite(s) =>
                IF upd'[s].err # "" THEN main' = main
                ELSE StoredVersion(main') > StoredVersion(main)
      ]_vars

\* The rule for table names: 1 to 64 characters, the first a letter or an
\* underscore, the rest letters, digits, underscores or hyphens, and not a
\* reserved name.
TableNameRule(cs) ==
    /\ Len(cs) \in 1..64
    /\ Code(cs[1]) \in (65..90) \cup (97..122) \/ cs[1] = "_"
    /\ \A i \in 1..Len(cs) : IsAsciiAlphanumeric(cs[i]) \/ cs[i] = "_" \/ cs[i] = "-"
    /\ cs \notin { Chars(r) : r \in {"_schema", "_schemas", "_meta", "_system", "_git"} }

\* The rule for row keys: 1 to 128 letters, digits, underscores or hyphens.
RowKeyRule(cs) ==
    /\ Len(cs) \in 1..128
    /\ \A i \in 1..Len(cs) : IsAsciiAlphanumeric(cs[i]) \/ cs[i] = "_" \/ cs[i] = "-"

\* C28: TableName::new accepts a name exactly when it satisfies the rule for
\* table names, and RowKey::new accepts a key exactly when it satisfies the
\* rule for row keys.
C28_NamesAcceptedByRule ==
    /\ "table" \in fnOut.done => ((fnOut.table = "") <=> TableNameRule(fnIn.name))
    /\ "key" \in fnOut.done => ((fnOut.key = "") <=> RowKeyRule(fnIn.name))

\* C29: deserializing the serialization of a row under the row's key succeeds
\* and gives the row back, whatever the names of its columns.
C29_RoundTrip ==
    "row" \in fnOut.done => (fnOut.err = "" /\ fnOut.row = fnIn.row)

\* C30: scan_table returns every row of the table once, in the byte order of
\* the row keys.
C30_ScanInKeyOrder ==
    "scan" \in fnOut.done =>
        /\ Len(fnOut.scan) = Cardinality(fnIn.keys)
        /\ { fnOut.scan[i] : i \in 1..Len(fnOut.scan) } = fnIn.keys
        /\ \A i, j \in 1..Len(fnOut.scan) : i < j => BytesLess(fnOut.scan[i], fnOut.scan[j])

\* The elements of s at positions offset .. offset + limit - 1, counted from 0.
Window(s, offset, limit) ==
    SubSeq(s, offset + 1, IF offset + limit < Len(s) THEN offset + limit ELSE Len(s))

\* The pipeline is a Limit operator over a Scan.
IsLimitOverScan == Len(plan.stages) = 1 /\ plan.stages[1].kind = "Limit"

\* C31: the rows a Limit operator over the sequence s has returned are the
\* first of the elements of s at positions offset .. offset + limit - 1, in
\* order; they are all of them once next_row has returned none, and no call
\* after that returns a row.
C31_LimitWindow ==
    IsLimitOverScan =>
        LET w == Window(plan.rows, plan.stages[1].offset, plan.stages[1].limit)
        IN /\ run.err = ""
           /\ Len(run.out) <= Len(w)
           /\ run.out = SubSeq(w, 1, Len(run.out))
           /\ run.ended => (run.out = w /\ run.late = << >>)

\* A Limit with an offset, over more rows than it lets through, has returned
\* its rows and then none twice.
C31_Witness ==
    /\ IsLimitOverScan
    /\ plan.stages[1].offset >= 1
    /\ run.out # << >>
    /\ Len(plan.rows) > plan.stages[1].offset + plan.stages[1].limit
    /\ run.ended
    /\ run.calls >= Len(run.out) + 2

\* The pipeline execute_select builds for a SELECT without LIMIT and OFFSET:
\* Scan, then Filter, Sort and Project, each present or not, in that order.
Rank(kind) == CASE kind = "Filter" -> 1 [] kind = "Sort" -> 2 [] kind = "Project" -> 3 [] OTHER -> 0

IsSelectPlan ==
    /\ \A i \in 1..Len(plan.stages) : plan.stages[i].kind # "Limit"
    /\ \A i, j \in 1..Len(plan.stages) :
          i < j => Rank(plan.stages[i].kind) < Rank(plan.stages[j].kind)

\* The rows a SELECT is to return, in the order of the scan: those that satisfy
\* the WHERE predicate, with the projection applied.
Expected ==
    LET where(r) == \A i \in 1..Len(plan.stages) :
                        plan.stages[i].kind = "Filter" => MatchesWhere(plan.stages[i], r).ok
        project(r) == [c \in Columns |->
                         IF \E i \in 1..Len(plan.stages) :
                                plan.stages[i].kind = "Project" /\ c \notin plan.stages[i].cols
                         THEN Absent ELSE r[c]]
        kept == SelectSeq(plan.rows, where)
    IN [i \in 1..Len(kept) |-> project(kept[i])]

Count(seq, x) == Cardinality({ i \in 1..Len(seq) : seq[i] = x })

\* C32: a SELECT that has returned all its rows without an error has returned
\* the multiset of the projected rows that satisfy WHERE, and under ORDER BY
\* no row of the result compares greater than a later one.
C32_SelectFilteredAndSorted ==
    (IsSelectPlan /\ run.ended /\ run.err = "") =>
        /\ Len(run.out) = Len(Expected)
        /\ \A i \in 1..Len(run.out) : Count(run.out, run.out[i]) = Count(Expected, run.out[i])
        /\ \A s \in 1..Len(plan.stages) :
              plan.stages[s].kind = "Sort" =>
                  \A i, j \in 1..Len(run.out) :
                      i < j => OrderCmp(plan.stages[s], run.out[i], run.out[j]) # "Greater"

\* C40: a pipeline that was reset, after whatever calls of next_row, and then
\* drained has returned what draining the pipeline as built returns.
C40_ResetThenDrain ==
    (run.resets >= 1 /\ run.ended) =>
        [rows |-> run.out, err |-> run.err] = Drain(NewOps(plan))

\* A pipeline with a Sort and a Limit was reset after two calls of next_row
\* and then drained of two rows.
C40_Witness ==
    /\ run.resets >= 1
    /\ run.pulled >= 2
    /\ run.ended
    /\ Len(run.out) >= 2
    /\ \E i \in 1..Len(plan.stages) : plan.stages[i].kind = "Sort"
    /\ \E i \in 1..Len(plan.stages) : plan.stages[i].kind = "Limit"

\* A pass that rewrites the inputs of a node before it tries the rules at the
\* node: [plan, changed].
RECURSIVE PostOrderPass(_)
PostOrderPass(p) ==
    IF p.nodes = << >> THEN ApplyRules(1, p, FALSE)
    ELSE LET below == PostOrderPass(InputOf(p))
         IN ApplyRules(1, Over(Head(p.nodes), below.plan), below.changed)

\* Some rule applies at some node of p.
RECURSIVE RuleApplies(_)
RuleApplies(p) ==
    \/ \E k \in 1..Len(Rules) : Apply(Rules[k], p).some
    \/ p.nodes # << >> /\ RuleApplies(InputOf(p))

\* C33: every pass of optimize leaves the plan a post-order application of
\* the rules gives, no more than max_iterations passes are made, and when
\* optimize has returned before the cap no rule applies at any node of its
\* plan.
C33_PostOrderToFixpoint ==
    [][ /\ opt'.iter <= max_iterations
        /\ (opt'.done /\ opt'.iter < max_iterations) => ~RuleApplies(opt'.current)
        /\ opt'.iter = opt.iter + 1 => opt'.current = PostOrderPass(opt.current).plan
      ]_vars

\* C34: when the session's statements so far are a successful CREATE TABLE
\* and a successful INSERT of one row into that table, on a new repository,
\* stats(main) reports two tables and two rows.
C34_StatsCountCatalog ==
    \A n \in SqlNames, k \in Keys :
        LET c == ExecCreateTable(n, InitialCommit)
            i == ExecInsert(n, << k >>, c.commit)
        IN (c.err = "" /\ i.err = "" /\ nStmt = 2 /\ stmt.op = "INSERT" /\ main = i.commit) =>
               Stats(main) = [table_count |-> 2, total_rows |-> 2]


\* C36: a transaction that has ended, by a commit that succeeded, by a commit
\* that failed or by a rollback, a SQL COMMIT or ROLLBACK statement included,
\* is not in the active-transaction map.
C36_FinishedNotInActiveMap ==
    \A t \in TxIds : pc[t] = "done" => t \notin active

\* C37: in a session alone on a new database, CREATE TABLE, then BEGIN, a
\* successful INSERT and COMMIT: the COMMIT succeeds, and main holds exactly what
\* the INSERT wrote.
C37_CommitAfterStatements ==
    [][ \A n \in SqlNames, ks \in InsertLists :
            LET c == ExecCreateTable(n, InitialCommit)
                i == ExecInsert(n, ks, c.commit)
            IN ( /\ c.err = "" /\ i.err = ""
                 /\ nStmt = 3 /\ stmt = [op |-> "INSERT", table |-> n, err |-> ""]
                 /\ currentTx # NoTx
                 /\ inTx = { << n, ks[j] >> : j \in 1..Len(ks) }
                 /\ main = i.commit
                 /\ stmt'.op = "COMMIT" ) =>
                    /\ stmt'.err = ""
                    /\ TreeAt(main') = TreeAt(i.commit)
      ]_vars


\* C35: every step that moves main moves it to a descendant of the commit it
\* pointed at, and a row that a completed INSERT wrote and no completed DELETE
\* has removed is readable at main.
C35_MainIsLinear ==
    [][ /\ IsAncestor(main, main')
        /\ \A k \in written' : RowExists(TreeAt(main'), SesTable, k)
      ]_vars

\* C38: at every commit main points at, the schema row of a table is in _schemas
\* exactly when the table's directory exists.
C38_CatalogMatchesStorage ==
    RowExists(TreeAt(main), SCHEMA_DIR, SchemaKey(SesTable)) <=> TableExists(TreeAt(main), SesTable)


\* Thread t waits: the lock it asked for is not to be had.
Waiting(t) == StepOf(t).do = "lock" /\ ~CanLock(StepOf(t).lock, StepOf(t).mode)

\* C39: whatever calls the threads make on one manager and however they
\* interleave, every call returns: no set of threads waits for the commit mutex,
\* the active-map lock and the repository lock in a cycle.
C39_EveryCallReturns ==
    \A t \in Threads : th[t].busy ~> ~th[t].busy

\* C39 happens: a thread in commit_transaction holds the commit mutex and waits
\* for the repository lock that a second thread holds, while a third waits for
\* the commit mutex.
C39_Witness ==
    \E a, b, c \in Threads :
        /\ lk.commit = a /\ Waiting(a) /\ StepOf(a).lock = "repo"
        /\ lk.repoW = b /\ b # a
        /\ Waiting(c) /\ StepOf(c).lock = "commit"

=============================================================================
